---- MODULE Spec2Model ----
(***************************************************************************)
(* Model of the resumable comparison pipeline of gha-workflow-benchmark:   *)
(* the batch orchestrator (poutine_docker_batch.py main / BatchAnalyzer)   *)
(* driving the persistent-worker analysis backend and the before/after     *)
(* comparator (poutine_docker_optimized.py PoutineDockerOptimized).        *)
(***************************************************************************)
EXTENDS Integers, Sequences, FiniteSets, TLC

(* ---- bounds of the model ---- *)
MaxHits == 2          \* longest input hit list
MaxRuns == 2          \* invocations of the orchestrator on one output directory
MaxFaults == 1        \* failures of docker commands and worker deaths
MaxFindings == 2      \* findings the analyzer reports for one snapshot
MaxLimit == 1         \* the --limit tried, besides no cap
MaxMarkers == 3       \* occurrences of the marker string in a text output
MaxPatterns == 2      \* distinct keyword pattern sources
MaxWorkflows == 2     \* index documents walked by one scan
MaxCommits == 2       \* commits in one workflow history
MaxLen == 3           \* characters of a path string or of a snapshot text

None == 0             \* Python None (shas, ids and paths are positive)

VARIABLES
  hits,          \* the input commit-hit list (hits.jsonl), fixed per behaviour
  files,         \* snapshot shas whose file exists under the data root
  limit,         \* args.limit (None or 0: no cap)
  batch_size,    \* args.batch_size
  proc,          \* an analyze call taken on its own: backend and what it meets
  log,           \* batch_results.jsonl, one entry per line
  progressFile,  \* progress.json, or NoFile
  pc,            \* position of the orchestrator process
  progress,      \* the in-memory progress dict of main
  todo,          \* commits_to_process
  i,             \* loop index of main's for loop
  side,          \* which analysis of compare_before_after is running
  before_result, \* PoutineResult of the before snapshot
  after_result,  \* PoutineResult of the after snapshot
  result,        \* the ComparisonResult last returned by compare_before_after
  container_id,  \* analyzer.container_id
  shared_mount,  \* analyzer.shared_mount
  analysis_dir,  \* the per-call subdirectory of the current call
  alive,         \* containers of this process running in the docker daemon
  mounts,        \* shared mount directories of this process existing on disk
  dirs,          \* per-call analysis directories existing on disk
  created,       \* containers created by the current run
  runs,          \* orchestrator invocations so far
  faults,        \* docker command failures and worker deaths so far
  tampered,      \* progress.json was edited by hand and not reloaded since
  lastExit,      \* the previous run ended Completed ("Completed") or not
  logAtStart,    \* the result log when the current run started
  cancelPc,      \* position at which the cancellation signal arrived
  savedSinceCancel, \* save_progress has run since the cancellation arrived
  hitLog,        \* the result log when the current hit was taken
  skipped,       \* hits of this run whose comparison raised
  mismatch,      \* the load just done found the counter to differ from the log
  call,          \* the analyze call in progress: what it has done so far
  lastCall,      \* the analyze call that returned last
  starts,        \* calls of start_container in the current run
  downs,         \* worker checks of the current run that found it not running
  index,         \* scanner: the index documents, in the order main walks them
  disk,          \* scanner: the snapshot files under the dataset root
  patterns,      \* scanner: the compiled patterns, in registration order
  spc,           \* scanner: position of the scanner process
  wf,            \* scanner: number of the index document scanned next
  scan_hits,     \* scanner: the list `hits` of the scanner's main
  diffs,         \* scanner: the diff artifacts written under diffs/
  reads,         \* scanner: the snapshot files read for each entry of scan_hits
  hits_jsonl,    \* scanner: the lines of hits.jsonl
  hits_csv,      \* scanner: the data rows of hits.csv
  readme,        \* scanner: the hit total of README.md, or Unwritten
  all_commits,   \* orchestrator: what the hit-list loader returned
  msg,           \* scan_repo_workflow_json: the commit message tested
  matches,       \* scan_repo_workflow_json: the keyword filter's result
  raw_rel,       \* scan_repo_workflow_json: the recorded snapshot path string
  rel_path,      \* scan_repo_workflow_json: the normalised relative path
  old_text,      \* scan_repo_workflow_json: text of the predecessor snapshot
  new_text,      \* scan_repo_workflow_json: text of the commit's snapshot
  udiff          \* scan_repo_workflow_json: the unified diff text

vars == <<hits, files, limit, batch_size, proc, log, progressFile, pc, progress,
          todo, i, side, before_result, after_result, result, container_id,
          shared_mount, analysis_dir, alive, mounts, dirs, created,
          runs, faults, tampered, lastExit, logAtStart, cancelPc,
          savedSinceCancel, hitLog, skipped, mismatch, call, lastCall,
          starts, downs, index, disk, patterns, spc, wf, scan_hits, diffs,
          reads, hits_jsonl, hits_csv, readme, all_commits, msg, matches,
          raw_rel, rel_path, old_text, new_text, udiff>>

(* ---- data ---- *)
\* progress.json does not exist
NoFile == [processed_count |-> -1, last_commit_sha |-> None]

\* poutine_docker_batch.py load_progress, the dict returned without a file
DefaultProgress == [processed_count |-> 0, last_commit_sha |-> None]

\* the predecessor sha recorded for commit sha s
PrevOf(s) == s + MaxHits

\* CommitInfo: commit_sha, prev_sha (None for the oldest commit of a history)
CommitInfo(s, p) == [commit_sha |-> s, prev_sha |-> p]

RECURSIVE HitLists(_)
HitLists(n) ==
  IF n = 0 THEN {<<>>}
  ELSE LET shorter == HitLists(n - 1)
       IN shorter \cup
          {Append(h, CommitInfo(Len(h) + 1, p)) :
             h \in {x \in shorter : Len(x) = n - 1},
             p \in {None, PrevOf(n)}}

\* the hit lists tried: MaxHits hits, at most one of them the oldest commit
\* of its workflow history
InputLists ==
  {h \in HitLists(MaxHits) :
     /\ Len(h) = MaxHits
     /\ Cardinality({k \in 1 .. Len(h) : h[k].prev_sha = None}) <= 1}

Snapshots == 1 .. (2 * MaxHits)

\* the snapshot files that may be gone from the data root: none, the first
\* hit's own snapshot, or its predecessor's
MissingChoices == {{}, {1}, {PrevOf(1)}}

\* PoutineResult
PoutineResult(ok, err, n, fs) ==
  [success |-> ok, error_message |-> err, findings_count |-> n, findings |-> fs]

NoResult == PoutineResult(FALSE, "unset", 0, <<>>)

IsPrefix(s, t) == Len(s) <= Len(t) /\ SubSeq(t, 1, Len(s)) = s

Range(s) == {s[k] : k \in 1 .. Len(s)}

(* ---- the analysis backend: output parsing ---- *)

\* the first n finding ids, as the list an analyzer run prints
RECURSIVE FirstN(_)
FirstN(n) == IF n = 0 THEN <<>> ELSE Append(FirstN(n - 1), n)

\* analyzer stdout: a JSON list ("list"), a JSON object whose findings key
\* holds a list ("dict") or null ("dict_null") or is missing ("dict_nokey"),
\* another JSON value ("scalar"), text that is no JSON ("text"), or nothing
\* ("empty"); items are the findings listed, markers the occurrences of
\* 'Finding:' in the text
Stdout(k, fs, m) == [kind |-> k, items |-> fs, markers |-> m]

EmptyStdout == Stdout("empty", <<>>, 0)

\* poutine_docker_optimized.py run_poutine_on_workflow, "Parse results"
ParseFindings(out) ==
  IF out.kind \in {"list", "dict"} THEN out.items ELSE <<>>

\* the parse without the count of 'Finding:' in text that is no JSON
ParseCount_NoFallback(out) ==
  IF out.kind \in {"list", "dict"} THEN Len(out.items) ELSE 0

ParseCount(out) ==
  CASE out.kind \in {"list", "dict"} -> Len(out.items)
    [] out.kind = "text" -> out.markers
    [] OTHER -> 0

NotFoundResult == PoutineResult(FALSE, "Workflow file not found", 0, <<>>)

\* a failed restart reported as an analysis without findings
NotRunningResult_Success == PoutineResult(TRUE, "none", 0, <<>>)

NotRunningResult ==
  PoutineResult(FALSE, "Container not running and failed to restart", 0, <<>>)

\* a timeout reported as an analysis without findings
TimeoutResult_Success == PoutineResult(TRUE, "none", 0, <<>>)

TimeoutResult == PoutineResult(FALSE, "Poutine execution timed out", 0, <<>>)
ErrorResult == PoutineResult(FALSE, "Error running Poutine", 0, <<>>)

\* the result built from the command's stdout; len(None) of a null findings
\* value raises TypeError, which the enclosing "except Exception" turns into
\* the error result
ParseResult(out) ==
  IF out.kind = "dict_null" THEN ErrorResult
  ELSE PoutineResult(TRUE, "none", ParseCount(out), ParseFindings(out))

(* ---- the analysis backends: run_poutine_on_workflow ---- *)

\* the persistent worker (poutine_docker_optimized.py), a container per call
\* (poutine_docker.py), and poutine_analysis_fixed.py with and without WSL
Backends == {"optimized", "docker", "native", "wsl"}

\* what an analyze call meets: the workflow file exists or not, the worker
\* check passes or not (persistent worker only), the analyzer command
\* returns, times out or raises, its exit code and stdout, and whether its
\* stderr holds the WSL mount error (WSL only)
Proc(b, e, w, o, rc, out, we) ==
  [backend |-> b, exists |-> e, worker |-> w, outcome |-> o,
   returncode |-> rc, stdout |-> out, wsl_error |-> we]

NoProc == Proc("none", FALSE, FALSE, "none", 0, EmptyStdout, FALSE)

WslMountResult ==
  PoutineResult(FALSE, "WSL mounting error - use poutine_docker.py instead",
                0, <<>>)
WslErrorResult == PoutineResult(FALSE, "Error in WSL workaround", 0, <<>>)

\* PoutineDockerOptimized.run_poutine_on_workflow
RunOptimized(p) ==
  IF ~p.exists THEN NotFoundResult
  ELSE IF ~p.worker THEN NotRunningResult
  ELSE CASE p.outcome = "timeout" -> TimeoutResult
         [] p.outcome = "error" -> ErrorResult
         [] OTHER -> ParseResult(p.stdout)

\* "if result.returncode == 0 and result.stdout:" around the parse
ParsedIfZero(p) ==
  ParseResult(IF p.returncode = 0 THEN p.stdout ELSE EmptyStdout)

\* a container-per-call backend that parses stdout whatever the exit code
\* and reports a non-zero exit as a failed analysis
RunDocker_ExitCodeFails(p) ==
  IF ~p.exists THEN NotFoundResult
  ELSE CASE p.outcome = "timeout" -> TimeoutResult
         [] p.outcome = "error" -> ErrorResult
         [] OTHER -> [ParseResult(p.stdout) EXCEPT
                        !.success = @ /\ p.returncode = 0]

\* PoutineDockerAnalyzer.run_poutine_on_workflow
RunDocker(p) ==
  IF ~p.exists THEN NotFoundResult
  ELSE CASE p.outcome = "timeout" -> TimeoutResult
         [] p.outcome = "error" -> ErrorResult
         [] OTHER -> ParsedIfZero(p)

\* PoutineAnalyzerFixed.run_poutine_on_workflow with use_wsl false:
\* _run_native catches TimeoutExpired, run_poutine_on_workflow the rest
RunNative(p) ==
  IF ~p.exists THEN NotFoundResult
  ELSE CASE p.outcome = "timeout" -> TimeoutResult
         [] p.outcome = "error" -> ErrorResult
         [] OTHER -> ParsedIfZero(p)

\* PoutineAnalyzerFixed.run_poutine_on_workflow with use_wsl true:
\* _run_with_wsl_workaround
RunWsl(p) ==
  IF ~p.exists THEN NotFoundResult
  ELSE CASE p.outcome = "timeout" -> TimeoutResult
         [] p.outcome = "error" -> WslErrorResult
         [] OTHER ->
              IF p.wsl_error THEN WslMountResult
              ELSE IF p.stdout.kind = "dict_null" THEN WslErrorResult
              ELSE ParseResult(p.stdout)

RunPoutineOnWorkflow(p) ==
  CASE p.backend = "optimized" -> RunOptimized(p)
    [] p.backend = "docker" -> RunDocker(p)
    [] p.backend = "native" -> RunNative(p)
    [] OTHER -> RunWsl(p)

(* ---- the before/after comparator ---- *)

\* str(f), the key of a finding
Str(f) == f

BothSucceeded(b, a) == b.success /\ a.success

\* compare_before_after without the test that both analyses succeeded
CompareResults_NoGate(commit, b, a) ==
  LET reduction == b.findings_count - a.findings_count
  IN [commit_info |-> commit,
      before_result |-> b,
      after_result |-> a,
      weaknesses_reduced |-> reduction > 0,
      before_count |-> b.findings_count,
      after_count |-> a.findings_count,
      reduction_count |-> reduction,
      fixed_issues |-> {}]

\* compare_before_after listing every finding of the before analysis as
\* fixed, without taking those of the after analysis away
CompareResults_KeepsCommon(commit, b, a) ==
  LET both == BothSucceeded(b, a)
      reduction == IF both THEN b.findings_count - a.findings_count ELSE 0
      reduced == both /\ reduction > 0
  IN [commit_info |-> commit,
      before_result |-> b,
      after_result |-> a,
      weaknesses_reduced |-> reduced,
      before_count |-> b.findings_count,
      after_count |-> a.findings_count,
      reduction_count |-> reduction,
      fixed_issues |-> IF reduced THEN {Str(f) : f \in Range(b.findings)}
                       ELSE {}]

\* poutine_docker_optimized.py compare_before_after, from
\* "Determine if weaknesses were reduced" to the returned ComparisonResult
CompareResults(commit, b, a) ==
  LET both == BothSucceeded(b, a)
      reduction == IF both THEN b.findings_count - a.findings_count ELSE 0
      reduced == both /\ reduction > 0
      fixed == IF reduced
               THEN {Str(f) : f \in Range(b.findings)}
                      \ {Str(f) : f \in Range(a.findings)}
               ELSE {}
  IN [commit_info |-> commit,
      before_result |-> b,
      after_result |-> a,
      weaknesses_reduced |-> reduced,
      before_count |-> b.findings_count,
      after_count |-> a.findings_count,
      reduction_count |-> reduction,
      fixed_issues |-> fixed]

NoComparison == CompareResults(CommitInfo(None, None), NoResult, NoResult)

\* ComparisonResult.to_dict, the line appended to the result log
ToDict(r) ==
  [commit_sha |-> r.commit_info.commit_sha,
   prev_sha |-> r.commit_info.prev_sha,
   weaknesses_reduced |-> r.weaknesses_reduced,
   before_count |-> r.before_count,
   after_count |-> r.after_count,
   reduction_count |-> r.reduction_count,
   fixed_issues |-> r.fixed_issues,
   before_success |-> r.before_result.success,
   after_success |-> r.after_result.success]

(* ---- BatchAnalyzer: the files of the output directory ---- *)

\* BatchAnalyzer.load_progress
LoadProgressFile(f) == IF f = NoFile THEN DefaultProgress ELSE f

\* a count that runs one ahead of the log
CountActualResults_Ahead(l) == Len(l) + 1

\* BatchAnalyzer.count_actual_results: the non-blank lines of the log
CountActualResults(l) == Len(l)

\* append_result opening the file in mode 'w'
AppendResult_Truncate(l, r) == <<ToDict(r)>>

\* BatchAnalyzer.append_result: open in mode 'a', write one line
AppendResult(l, r) == Append(l, ToDict(r))

\* main trusting the counter of the progress file
Reconciled_Never(p, l) == p

\* main, "Load or initialize progress": the counter is set from the log
Reconciled(p, l) ==
  IF p.processed_count # CountActualResults(l)
  THEN [p EXCEPT !.processed_count = CountActualResults(l)]
  ELSE p

\* s[n:] of Python, n >= 0
Drop(s, n) == IF n >= Len(s) THEN <<>> ELSE SubSeq(s, n + 1, Len(s))

\* s[:n] of Python, n > 0
Take(s, n) == IF n >= Len(s) THEN s ELSE SubSeq(s, 1, n)

\* the truth value Python gives an optional integer: None and 0 are false
Truthy(n) == n # None /\ n # 0

\* main, "Filter to commits not yet processed"; the cap applies
\* "if args.limit:"
CommitsToProcess(all, p, lim) ==
  LET rest == Drop(all, p.processed_count)
  IN IF Truthy(lim)
     THEN IF lim - p.processed_count > 0
          THEN Take(rest, lim - p.processed_count)
          ELSE <<>>
     ELSE rest

(* ---- the persistent worker ---- *)

\* the smallest id that is not in use
FreshId(used) ==
  CHOOSE n \in 1 .. (Cardinality(used) + 1) :
    n \notin used /\ \A m \in 1 .. (n - 1) : m \in used

\* stop_container: docker stop and docker rm of self.container_id; stopped
\* is FALSE when the stop command fails or times out
AliveAfterStop(stopped) ==
  IF container_id # None /\ stopped THEN alive \ {container_id} ELSE alive

\* stop_container, "Clean up shared mount": rmtree of self.shared_mount
MountsAfterStop == mounts \ {shared_mount}

DirsAfterStop == {d \in dirs : d.mount # shared_mount}

\* start_container: mkdtemp, then docker run -d; started is FALSE when the
\* run command fails or times out.  Evaluated on the state left by the
\* stop that precedes it, if any.
NewMount(ms) == FreshId(ms)

NewContainer(al) == FreshId(al \cup created \cup {container_id})

(* ---- the orchestrator: main of poutine_docker_batch.py ---- *)

Terminal == {"Completed", "Interrupted", "Failed"}

\* positions before the try block of main
PreTry == {"Loading", "Select", "InitAnalyzer", "StartContainer"}

\* positions inside the try block of main
Running == {"Loop", "Check", "Exec", "Append", "Update", "FinalSave"}

\* positions of an analyzer call in flight
InFlight == {"Check", "Exec"}

\* what an analyze call has done: inspected the worker (and what it found),
\* restarted it (and which container the restart created), executed the
\* analyzer (and where), and what it returned
NewCall == [checked |-> FALSE, found |-> "unknown", restarts |-> 0,
            newWorker |-> None, execIn |-> None, outcome |-> "none",
            result |-> NoResult]

NoCall == [NewCall EXCEPT !.outcome = "nocall"]

\* no per-call directory
NoDir == [mount |-> None, id |-> None]

InitialHistory ==
  /\ lastExit = "other" /\ cancelPc = "none" /\ savedSinceCancel = FALSE
  /\ hitLog = <<>> /\ skipped = 0 /\ logAtStart = <<>> /\ mismatch = FALSE
  /\ call = NewCall /\ lastCall = NoCall
  /\ starts = 0 /\ downs = 0

\* README.md has not been written
Unwritten == -1

\* the scanner has not run
ScannerIdle ==
  /\ index = <<>> /\ disk = <<>> /\ patterns = <<>>
  /\ spc = "Idle" /\ wf = 0 /\ scan_hits = <<>> /\ diffs = {} /\ reads = <<>>
  /\ hits_jsonl = <<>> /\ hits_csv = <<>> /\ readme = Unwritten
  /\ all_commits = <<>>

\* no commit of a history is being looked at
LocalsIdle ==
  /\ msg = {} /\ matches = <<>> /\ raw_rel = <<>> /\ rel_path = <<>>
  /\ old_text = <<>> /\ new_text = <<>> /\ udiff = <<>>

ProcessIdle ==
  /\ progress = DefaultProgress /\ todo = <<>> /\ i = 0 /\ side = "none"
  /\ before_result = NoResult /\ after_result = NoResult
  /\ result = NoComparison
  /\ container_id = None /\ shared_mount = None /\ analysis_dir = NoDir

Init ==
  /\ hits \in InputLists
  /\ \E missing \in MissingChoices : files = Snapshots \ missing
  /\ limit \in {None, MaxLimit}
  /\ batch_size \in 1 .. 2
  /\ proc = NoProc
  /\ log = <<>> /\ progressFile = NoFile
  /\ pc = "Idle"
  /\ ProcessIdle
  /\ alive = {} /\ mounts = {} /\ dirs = {} /\ created = {}
  /\ runs = 0 /\ faults = 0 /\ tampered = FALSE
  /\ InitialHistory
  /\ ScannerIdle /\ LocalsIdle

inputVars == <<hits, files, limit, batch_size, proc>>
callVars == <<side, before_result, after_result, result, analysis_dir,
              call, lastCall>>
workerVars == <<container_id, shared_mount, alive, mounts, dirs, created>>
histVars == <<lastExit, logAtStart, cancelPc, savedSinceCancel, hitLog,
              skipped, mismatch>>
countVars == <<starts, downs>>
walkVars == <<index, disk, patterns, spc, wf, scan_hits, diffs, reads,
              hits_jsonl, hits_csv, readme, all_commits>>
localVars == <<msg, matches, raw_rel, rel_path, old_text, new_text, udiff>>
scanVars == <<walkVars, localVars>>
envVars == <<runs, tampered>>

\* the outcomes a docker command may have: it works (TRUE), or it fails or
\* times out (FALSE) while the model still has failures to spend
Outcomes == IF faults < MaxFaults THEN BOOLEAN ELSE {TRUE}

Charge(ok) == faults' = IF ok THEN faults ELSE faults + 1

\* the process is started: python poutine_docker_batch.py ...
\* Containers and directories an earlier process left behind are out of the
\* new process's reach (their names are never used again): alive, mounts and
\* dirs follow those of the current process only.
StartRun ==
  /\ pc \in Terminal \cup {"Idle"}
  /\ runs < MaxRuns
  /\ runs' = runs + 1
  /\ pc' = "Loading"
  /\ progress' = DefaultProgress /\ todo' = <<>> /\ i' = 0 /\ side' = "none"
  /\ before_result' = NoResult /\ after_result' = NoResult
  /\ result' = NoComparison
  /\ container_id' = None /\ shared_mount' = None /\ analysis_dir' = NoDir
  /\ created' = {}
  /\ lastExit' = (IF pc = "Completed" THEN "Completed" ELSE "other")
  /\ logAtStart' = log /\ cancelPc' = "none" /\ savedSinceCancel' = FALSE
  /\ hitLog' = log /\ skipped' = 0 /\ mismatch' = FALSE
  /\ call' = NewCall /\ lastCall' = NoCall
  /\ starts' = 0 /\ downs' = 0
  /\ alive' = {} /\ mounts' = {} /\ dirs' = {}
  /\ UNCHANGED <<inputVars, scanVars, log, progressFile, faults, tampered>>

\* main: load_progress, the counter check against the log, and the
\* "Starting new analysis" reset
LoadProgress ==
  /\ pc = "Loading"
  /\ \E resume \in BOOLEAN :
       LET loaded == LoadProgressFile(progressFile)
           fixed == Reconciled(loaded, log)
       IN /\ mismatch' = (loaded.processed_count # CountActualResults(log))
          /\ progressFile' = IF fixed # loaded THEN fixed ELSE progressFile
          /\ progress' = IF resume \/ fixed.processed_count > 0
                         THEN fixed ELSE DefaultProgress
  /\ pc' = "Select"
  /\ tampered' = FALSE
  /\ UNCHANGED <<inputVars, scanVars, log, todo, i, callVars, workerVars, lastExit,
                 logAtStart, cancelPc, savedSinceCancel, hitLog, skipped,
                 countVars, runs, faults>>

\* main: load the commits, take the unprocessed ones, return when none
SelectCommits ==
  /\ pc = "Select"
  /\ todo' = CommitsToProcess(hits, progress, limit)
  /\ pc' = IF todo' = <<>> THEN "Completed" ELSE "InitAnalyzer"
  /\ mismatch' = FALSE
  /\ UNCHANGED <<inputVars, scanVars, log, progressFile, progress, i, callVars,
                 workerVars, lastExit, logAtStart, cancelPc, savedSinceCancel,
                 hitLog, skipped, countVars, envVars, faults>>

\* main: PoutineDockerOptimized(...) and _ensure_image raise when docker
\* or the image is not available
InitAnalyzer ==
  /\ pc = "InitAnalyzer"
  /\ \E available \in Outcomes :
       /\ Charge(available)
       /\ pc' = IF available THEN "StartContainer" ELSE "Failed"
  /\ UNCHANGED <<inputVars, scanVars, log, progressFile, progress, todo, i, callVars,
                 workerVars, histVars, countVars, envVars>>

\* main going on to the loop whatever start_container returned
StartContainer_Unchecked ==
  /\ pc = "StartContainer"
  /\ \E started \in Outcomes :
       /\ Charge(started)
       /\ shared_mount' = NewMount(mounts)
       /\ mounts' = mounts \cup {shared_mount'}
       /\ IF started
          THEN /\ container_id' = NewContainer(alive)
               /\ alive' = alive \cup {container_id'}
               /\ created' = created \cup {container_id'}
          ELSE UNCHANGED <<container_id, alive, created>>
       /\ pc' = "Loop"
  /\ starts' = starts + 1
  /\ UNCHANGED <<inputVars, scanVars, log, progressFile, progress, todo, i, callVars,
                 dirs, histVars, downs, envVars>>

\* main: start_container, return 1 when it fails
StartContainer ==
  /\ pc = "StartContainer"
  /\ \E started \in Outcomes :
       /\ Charge(started)
       /\ shared_mount' = NewMount(mounts)
       /\ mounts' = mounts \cup {shared_mount'}
       /\ IF started
          THEN /\ container_id' = NewContainer(alive)
               /\ alive' = alive \cup {container_id'}
               /\ created' = created \cup {container_id'}
               /\ pc' = "Loop"
          ELSE /\ UNCHANGED <<container_id, alive, created>>
               /\ pc' = "Failed"
  /\ starts' = starts + 1
  /\ UNCHANGED <<inputVars, scanVars, log, progressFile, progress, todo, i, callVars,
                 dirs, histVars, downs, envVars>>

\* the hit the loop is at
Commit == todo[i + 1]

\* the snapshot file of the analyze call in progress:
\* compare_before_after, before_file and after_file
WorkflowFile == IF side = "before" THEN Commit.prev_sha ELSE Commit.commit_sha

\* what the analyzer prints for snapshot s in an orchestrator run: the
\* analyzer is a function of the file it is given
AnalyzerStdout(s) ==
  Stdout("list", FirstN((s \div 2) % (MaxFindings + 1)), 0)

\* run_poutine_on_workflow returns r: compare_before_after goes on to the
\* after snapshot, or to the comparison
Return(r, c) ==
  /\ lastCall' = [c EXCEPT !.result = r]
  /\ call' = NewCall
  /\ analysis_dir' = NoDir
  /\ IF side = "before"
     THEN /\ before_result' = r /\ side' = "after" /\ pc' = "Check"
          /\ UNCHANGED after_result
     ELSE /\ after_result' = r /\ pc' = "Append"
          /\ UNCHANGED <<before_result, side>>

\* a loop that takes the same hit again after its comparison raised
NextHit_Retry ==
  /\ pc = "Loop"
  /\ IF i >= Len(todo)
     THEN /\ pc' = "FinalSave"
          /\ UNCHANGED <<i, side, skipped, hitLog, call>>
     ELSE /\ hitLog' = log
          /\ IF Commit.prev_sha = None
             THEN /\ pc' = "Loop"
                  /\ UNCHANGED <<i, skipped, side, call>>
             ELSE /\ side' = "before"
                  /\ call' = NewCall
                  /\ pc' = "Check"
                  /\ UNCHANGED <<i, skipped>>
  /\ UNCHANGED <<inputVars, scanVars, log, progressFile, progress, todo, before_result,
                 after_result, result, analysis_dir, lastCall, workerVars,
                 lastExit, logAtStart, cancelPc, savedSinceCancel, mismatch,
                 countVars, envVars, faults>>

\* main, the head of the for loop; compare_before_after up to the first
\* analyze call; str.replace(sha, None) raises TypeError, which main's
\* "except Exception" swallows before going to the next commit
NextHit ==
  /\ pc = "Loop"
  /\ IF i >= Len(todo)
     THEN /\ pc' = "FinalSave"
          /\ UNCHANGED <<i, side, skipped, hitLog, call>>
     ELSE /\ hitLog' = log
          /\ IF Commit.prev_sha = None
             THEN /\ skipped' = skipped + 1
                  /\ i' = i + 1
                  /\ pc' = "Loop"
                  /\ UNCHANGED <<side, call>>
             ELSE /\ side' = "before"
                  /\ call' = NewCall
                  /\ pc' = "Check"
                  /\ UNCHANGED <<i, skipped>>
  /\ UNCHANGED <<inputVars, scanVars, log, progressFile, progress, todo, before_result,
                 after_result, result, analysis_dir, lastCall, workerVars,
                 lastExit, logAtStart, cancelPc, savedSinceCancel, mismatch,
                 countVars, envVars, faults>>

\* run_poutine_on_workflow: make the per-call directory, go on to docker exec
EnterExec(c, mount, ds) ==
  /\ analysis_dir' = [mount |-> mount,
                      id |-> FreshId({d.id : d \in ds})]
  /\ dirs' = ds \cup {analysis_dir'}
  /\ call' = c
  /\ lastCall' = NoCall
  /\ pc' = "Exec"
  /\ UNCHANGED <<side, before_result, after_result>>

\* run_poutine_on_workflow going to docker exec without
\* _check_container_running
AnalyzeCheck_NoInspect ==
  /\ pc = "Check"
  /\ IF WorkflowFile \notin files
     THEN /\ Return(NotFoundResult, [call EXCEPT !.outcome = "notfound"])
          /\ UNCHANGED <<workerVars, faults>>
     ELSE /\ EnterExec(call, shared_mount, dirs)
          /\ UNCHANGED <<container_id, shared_mount, alive, mounts, created,
                         faults>>
  /\ UNCHANGED <<inputVars, scanVars, log, progressFile, progress, todo, i, result,
                 histVars, countVars, envVars>>

\* _check_container_running restarting the worker at every check
NeedsRestart_Always(running) == TRUE

\* _check_container_running, the test on the output of docker inspect: the
\* worker is restarted unless the command printed 'true'
NeedsRestart(running) == ~running

\* run_poutine_on_workflow up to the docker exec: the file test, then
\* _check_container_running with its restart
AnalyzeCheck ==
  /\ pc = "Check"
  /\ IF WorkflowFile \notin files
     THEN /\ Return(NotFoundResult, [call EXCEPT !.outcome = "notfound"])
          /\ UNCHANGED <<workerVars, faults, countVars>>
     ELSE IF container_id = None
     THEN /\ Return(NotRunningResult, [call EXCEPT !.outcome = "noworker"])
          /\ UNCHANGED <<workerVars, faults, countVars>>
     ELSE \E inspected \in Outcomes :
       LET c1 == [call EXCEPT !.checked = TRUE]
       IN IF ~inspected
          THEN \* docker inspect raised (timeout): no restart
               /\ Return(NotRunningResult, [c1 EXCEPT !.outcome = "noworker"])
               /\ Charge(FALSE)
               /\ UNCHANGED <<workerVars, countVars>>
          ELSE IF ~NeedsRestart(container_id \in alive)
          THEN /\ EnterExec([c1 EXCEPT !.found = "running"],
                            shared_mount, dirs)
               /\ UNCHANGED <<container_id, shared_mount, alive, mounts,
                              created, faults, countVars>>
          ELSE \* the container is not running: stop_container, start_container
               \E started \in Outcomes :
                 LET alive1 == AliveAfterStop(TRUE)
                     mounts1 == MountsAfterStop
                     dirs1 == DirsAfterStop
                     mount == NewMount(mounts1)
                     cid == NewContainer(alive)
                     c2 == [c1 EXCEPT !.found = "stopped",
                                      !.restarts = @ + 1]
                 IN /\ Charge(started)
                    /\ starts' = starts + 1
                    /\ downs' = IF container_id \in alive
                                THEN downs ELSE downs + 1
                    /\ shared_mount' = mount
                    /\ mounts' = mounts1 \cup {mount}
                    /\ IF started
                       THEN /\ container_id' = cid
                            /\ alive' = alive1 \cup {cid}
                            /\ created' = created \cup {cid}
                            /\ EnterExec([c2 EXCEPT !.newWorker = cid],
                                         mount, dirs1)
                       ELSE /\ dirs' = dirs1
                            /\ alive' = alive1
                            /\ UNCHANGED <<container_id, created>>
                            /\ Return(NotRunningResult,
                                      [c2 EXCEPT !.outcome = "noworker"])
  /\ UNCHANGED <<inputVars, scanVars, log, progressFile, progress, todo, i, result,
                 histVars, envVars>>

\* run_poutine_on_workflow from docker exec on: the command returns, times
\* out (TimeoutExpired) or another exception is raised; only a returned
\* command gets to the rmtree of the per-call directory and to the parse.
\* docker exec in a container that is not running prints nothing on stdout.
AnalyzeExec ==
  /\ pc = "Exec"
  /\ \E outcome \in {"returned"} \cup
                      (IF faults < MaxFaults THEN {"timeout", "error"} ELSE {}) :
       LET c == [call EXCEPT !.execIn = container_id, !.outcome = outcome]
       IN CASE outcome = "timeout" ->
                 /\ Return(TimeoutResult, c)
                 /\ Charge(FALSE)
                 /\ UNCHANGED dirs
            [] outcome = "error" ->
                 /\ Return(ErrorResult, c)
                 /\ Charge(FALSE)
                 /\ UNCHANGED dirs
            [] outcome = "returned" ->
                 /\ dirs' = dirs \ {analysis_dir}
                 /\ UNCHANGED faults
                 /\ Return(ParseResult(IF container_id \in alive
                                        THEN AnalyzerStdout(WorkflowFile)
                                        ELSE EmptyStdout), c)
  /\ UNCHANGED <<inputVars, scanVars, log, progressFile, progress, todo, i, result,
                 container_id, shared_mount, alive, mounts, created,
                 histVars, countVars, envVars>>

\* compare_before_after, the comparison, and main's append_result
AppendStep ==
  /\ pc = "Append"
  /\ result' = CompareResults(Commit, before_result, after_result)
  /\ log' = AppendResult(log, result')
  /\ pc' = "Update"
  /\ side' = "none" /\ before_result' = NoResult /\ after_result' = NoResult
  /\ lastCall' = NoCall
  /\ UNCHANGED <<inputVars, scanVars, progressFile, progress, todo, i, analysis_dir,
                 call, workerVars, histVars, countVars, envVars, faults>>

\* main, "Update progress" and "Save progress every batch_size commits"
UpdateProgress ==
  /\ pc = "Update"
  /\ progress' = [processed_count |-> CountActualResults(log),
                  last_commit_sha |-> Commit.commit_sha]
  /\ progressFile' = IF (i + 1) % batch_size = 0
                     THEN progress' ELSE progressFile
  /\ i' = i + 1
  /\ pc' = "Loop"
  /\ result' = NoComparison
  /\ UNCHANGED <<inputVars, scanVars, log, todo, side, before_result, after_result,
                 analysis_dir, call, lastCall, workerVars, histVars,
                 countVars, envVars, faults>>

\* main, "Save final progress"
FinalSave ==
  /\ pc = "FinalSave"
  /\ progressFile' = progress
  /\ pc' = "Finally"
  /\ UNCHANGED <<inputVars, scanVars, log, progress, todo, i, callVars, workerVars,
                 histVars, countVars, envVars, faults>>

\* stop_container as called from main: the stop command works or not
\* (which matters only when the container is running)
StopContainer ==
  \E stopped \in (IF container_id \in alive THEN Outcomes ELSE {TRUE}) :
    /\ Charge(stopped)
    /\ alive' = AliveAfterStop(stopped)
    /\ mounts' = MountsAfterStop
    /\ dirs' = DirsAfterStop
    /\ UNCHANGED <<container_id, shared_mount, created>>

\* main, the finally clause on the normal path, then the final reports
FinallyStop ==
  /\ pc = "Finally"
  /\ StopContainer
  /\ pc' = "Completed"
  /\ UNCHANGED <<inputVars, scanVars, log, progressFile, progress, todo, i, callVars,
                 histVars, countVars, envVars>>

\* a cancellation that is only noted, the hit in progress going on
Cancel_Deferred ==
  /\ pc \in Running \cup PreTry
  /\ cancelPc = "none"
  /\ cancelPc' = pc
  /\ UNCHANGED <<inputVars, scanVars, log, progressFile, pc, progress, todo, i,
                 callVars, workerVars, lastExit, logAtStart, savedSinceCancel,
                 hitLog, skipped, mismatch, countVars, envVars, faults>>

\* KeyboardInterrupt is raised in main.  Inside the try block one of the
\* two "except KeyboardInterrupt" handlers takes it, wherever it was raised
\* (run_poutine_on_workflow catches Exception only); before the try block
\* nothing does and the process ends.  An interrupt during start_container
\* may find the container already created.
Cancel ==
  /\ pc \in Running \cup PreTry
  /\ cancelPc' = pc
  /\ savedSinceCancel' = FALSE
  /\ IF pc \in Running
     THEN /\ pc' = "IntSave"
          /\ UNCHANGED <<workerVars, starts>>
     ELSE /\ pc' = "Interrupted"
          /\ IF pc = "StartContainer"
             THEN \E started \in BOOLEAN :
                    /\ shared_mount' = NewMount(mounts)
                    /\ mounts' = mounts \cup {shared_mount'}
                    /\ alive' = IF started
                                THEN alive \cup {NewContainer(alive)}
                                ELSE alive
                    /\ created' = IF started
                                  THEN created \cup {NewContainer(alive)}
                                  ELSE created
                    /\ starts' = starts + 1
                    /\ UNCHANGED <<container_id, dirs>>
             ELSE UNCHANGED <<workerVars, starts>>
  /\ UNCHANGED <<inputVars, scanVars, log, progressFile, progress, todo, i, callVars,
                 lastExit, logAtStart, hitLog, skipped, mismatch, downs,
                 envVars, faults>>

\* a KeyboardInterrupt handler that goes to stop_container at once
InterruptSave_Skip ==
  /\ pc = "IntSave"
  /\ pc' = "IntStop"
  /\ UNCHANGED <<inputVars, scanVars, log, progressFile, progress, todo, i, callVars,
                 workerVars, histVars, countVars, envVars, faults>>

\* the KeyboardInterrupt handlers of main: save_progress ...
InterruptSave ==
  /\ pc = "IntSave"
  /\ progressFile' = progress
  /\ savedSinceCancel' = TRUE
  /\ pc' = "IntStop"
  /\ UNCHANGED <<inputVars, scanVars, log, progress, todo, i, callVars, workerVars,
                 lastExit, logAtStart, cancelPc, hitLog, skipped, mismatch,
                 countVars, envVars, faults>>

\* ... stop_container ...
InterruptStop ==
  /\ pc = "IntStop"
  /\ StopContainer
  /\ pc' = "IntFinally"
  /\ UNCHANGED <<inputVars, scanVars, log, progressFile, progress, todo, i, callVars,
                 histVars, countVars, envVars>>

\* ... and sys.exit(0), which runs the finally clause: stop_container again
InterruptFinally ==
  /\ pc = "IntFinally"
  /\ StopContainer
  /\ pc' = "Interrupted"
  /\ UNCHANGED <<inputVars, scanVars, log, progressFile, progress, todo, i, callVars,
                 histVars, countVars, envVars>>

(* ---- the environment ---- *)

\* the worker container stops on its own while the run is going on
ContainerDies ==
  /\ pc \in Running
  /\ container_id \in alive
  /\ faults < MaxFaults
  /\ faults' = faults + 1
  /\ alive' = alive \ {container_id}
  /\ UNCHANGED <<inputVars, scanVars, log, progressFile, pc, progress, todo, i,
                 callVars, container_id, shared_mount, mounts, dirs, created,
                 histVars, countVars, envVars>>

\* between two runs somebody edits processed_count in progress.json, to
\* nothing done or to more than there is to do
Tamper ==
  /\ pc \in Terminal
  /\ progressFile # NoFile
  /\ ~tampered
  /\ tampered' = TRUE
  /\ \E n \in {0, MaxHits + 1} :
       /\ n # progressFile.processed_count
       /\ progressFile' = [progressFile EXCEPT !.processed_count = n]
  /\ UNCHANGED <<inputVars, scanVars, log, pc, progress, todo, i, callVars, workerVars,
                 histVars, countVars, runs, faults>>

Next ==
  \/ StartRun
  \/ LoadProgress
  \/ SelectCommits
  \/ InitAnalyzer
  \/ StartContainer
  \/ NextHit
  \/ AnalyzeCheck
  \/ AnalyzeExec
  \/ AppendStep
  \/ UpdateProgress
  \/ FinalSave
  \/ FinallyStop
  \/ Cancel
  \/ InterruptSave
  \/ InterruptStop
  \/ InterruptFinally
  \/ ContainerDies
  \/ Tamper

Spec == Init /\ [][Next]_vars

(* ---- runs with a cap of zero ---- *)

\* the orchestrator is always started with --limit 0
InitCap ==
  /\ hits \in InputLists
  /\ \E missing \in MissingChoices : files = Snapshots \ missing
  /\ limit = 0
  /\ batch_size \in 1 .. 2
  /\ proc = NoProc
  /\ log = <<>> /\ progressFile = NoFile
  /\ pc = "Idle"
  /\ ProcessIdle
  /\ alive = {} /\ mounts = {} /\ dirs = {} /\ created = {}
  /\ runs = 0 /\ faults = 0 /\ tampered = FALSE
  /\ InitialHistory
  /\ ScannerIdle /\ LocalsIdle

SpecCap == InitCap /\ [][Next]_vars

(* ---- a run whose worker is down ---- *)

\* main has started the worker and is about to take the first hit of an
\* empty output directory; the worker container has stopped since
InitDown ==
  /\ hits \in InputLists
  /\ \E missing \in MissingChoices : files = Snapshots \ missing
  /\ limit \in {None, MaxLimit}
  /\ batch_size \in 1 .. 2
  /\ proc = NoProc
  /\ log = <<>> /\ progressFile = NoFile
  /\ pc = "Loop"
  /\ progress = DefaultProgress
  /\ todo = CommitsToProcess(hits, DefaultProgress, limit)
  /\ i = 0 /\ side = "none"
  /\ before_result = NoResult /\ after_result = NoResult
  /\ result = NoComparison
  /\ container_id = FreshId({}) /\ shared_mount = FreshId({})
  /\ analysis_dir = NoDir
  /\ alive = {} /\ mounts = {shared_mount} /\ dirs = {}
  /\ created = {container_id}
  /\ runs = 1 /\ faults = 0 /\ tampered = FALSE
  /\ lastExit = "other" /\ cancelPc = "none" /\ savedSinceCancel = FALSE
  /\ hitLog = <<>> /\ skipped = 0 /\ logAtStart = <<>> /\ mismatch = FALSE
  /\ call = NewCall /\ lastCall = NoCall
  /\ starts = 1 /\ downs = 0
  /\ ScannerIdle /\ LocalsIdle

\* the try block of main, let run to its end
NextDown ==
  \/ NextHit
  \/ AnalyzeCheck
  \/ AnalyzeExec
  \/ AppendStep
  \/ UpdateProgress
  \/ FinalSave
  \/ FinallyStop
  \/ ContainerDies

SpecDown == InitDown /\ [][NextDown]_vars

(* ---- a run whose docker inspect may fail while the worker runs ---- *)

\* main has started the worker and is about to take the first hit of an
\* empty output directory; the worker container is running
InitRestart ==
  /\ hits \in InputLists
  /\ \E missing \in MissingChoices : files = Snapshots \ missing
  /\ limit \in {None, MaxLimit}
  /\ batch_size \in 1 .. 2
  /\ proc = NoProc
  /\ log = <<>> /\ progressFile = NoFile
  /\ pc = "Loop"
  /\ progress = DefaultProgress
  /\ todo = CommitsToProcess(hits, DefaultProgress, limit)
  /\ i = 0 /\ side = "none"
  /\ before_result = NoResult /\ after_result = NoResult
  /\ result = NoComparison
  /\ container_id = FreshId({}) /\ shared_mount = FreshId({})
  /\ analysis_dir = NoDir
  /\ alive = {container_id} /\ mounts = {shared_mount} /\ dirs = {}
  /\ created = {container_id}
  /\ runs = 1 /\ faults = 0 /\ tampered = FALSE
  /\ lastExit = "other" /\ cancelPc = "none" /\ savedSinceCancel = FALSE
  /\ hitLog = <<>> /\ skipped = 0 /\ logAtStart = <<>> /\ mismatch = FALSE
  /\ call = NewCall /\ lastCall = NoCall
  /\ starts = 1 /\ downs = 0
  /\ ScannerIdle /\ LocalsIdle

\* what docker inspect does: it reports the state of the container
\* ("state"), or, while the model has failures to spend, it times out
\* ("raised") or exits non-zero, as it does when the daemon cannot answer
\* ("nonzero")
InspectOutcomes ==
  {"state"} \cup (IF faults < MaxFaults THEN {"raised", "nonzero"} ELSE {})

\* run_poutine_on_workflow up to the docker exec, with every outcome of the
\* commands of _check_container_running: the restart is taken on
\* "returncode == 0 and stdout == 'true'" being false, and stop_container
\* neither checks docker stop nor lets its timeout out (stopped is FALSE
\* when the old container outlives it)
AnalyzeCheckInspect ==
  /\ pc = "Check"
  /\ IF WorkflowFile \notin files
     THEN /\ Return(NotFoundResult, [call EXCEPT !.outcome = "notfound"])
          /\ UNCHANGED <<workerVars, faults, countVars>>
     ELSE IF container_id = None
     THEN /\ Return(NotRunningResult, [call EXCEPT !.outcome = "noworker"])
          /\ UNCHANGED <<workerVars, faults, countVars>>
     ELSE \E inspected \in InspectOutcomes :
       LET c1 == [call EXCEPT !.checked = TRUE]
           running == inspected = "state" /\ container_id \in alive
           spent == IF inspected = "nonzero" THEN faults + 1 ELSE faults
       IN IF inspected = "raised"
          THEN /\ Return(NotRunningResult, [c1 EXCEPT !.outcome = "noworker"])
               /\ Charge(FALSE)
               /\ UNCHANGED <<workerVars, countVars>>
          ELSE IF ~NeedsRestart(running)
          THEN /\ EnterExec([c1 EXCEPT !.found = "running"],
                            shared_mount, dirs)
               /\ UNCHANGED <<container_id, shared_mount, alive, mounts,
                              created, faults, countVars>>
          ELSE \E stopped \in (IF container_id \in alive THEN BOOLEAN
                               ELSE {TRUE}),
                  started \in (IF spent < MaxFaults THEN BOOLEAN
                               ELSE {TRUE}) :
                 LET alive1 == AliveAfterStop(stopped)
                     mounts1 == MountsAfterStop
                     dirs1 == DirsAfterStop
                     mount == NewMount(mounts1)
                     cid == NewContainer(alive)
                     c2 == [c1 EXCEPT !.found = "stopped",
                                      !.restarts = @ + 1]
                 IN /\ faults' = IF started THEN spent ELSE spent + 1
                    /\ starts' = starts + 1
                    /\ downs' = downs + 1
                    /\ shared_mount' = mount
                    /\ mounts' = mounts1 \cup {mount}
                    /\ IF started
                       THEN /\ container_id' = cid
                            /\ alive' = alive1 \cup {cid}
                            /\ created' = created \cup {cid}
                            /\ EnterExec([c2 EXCEPT !.newWorker = cid],
                                         mount, dirs1)
                       ELSE /\ dirs' = dirs1
                            /\ alive' = alive1
                            /\ UNCHANGED <<container_id, created>>
                            /\ Return(NotRunningResult,
                                      [c2 EXCEPT !.outcome = "noworker"])
  /\ UNCHANGED <<inputVars, scanVars, log, progressFile, progress, todo, i, result,
                 histVars, envVars>>

\* the try block of main, let run to its end
NextRestart ==
  \/ NextHit
  \/ AnalyzeCheckInspect
  \/ AnalyzeExec
  \/ AppendStep
  \/ UpdateProgress
  \/ FinalSave
  \/ FinallyStop
  \/ ContainerDies

SpecRestart == InitRestart /\ [][NextRestart]_vars

(* ---- one run of the orchestrator, its commands returning in time ---- *)

\* an output directory that is empty, and a hit list that may be empty too
InitLive ==
  /\ hits \in InputLists \cup {<<>>}
  /\ \E missing \in MissingChoices : files = Snapshots \ missing
  /\ limit \in {None, MaxLimit}
  /\ batch_size \in 1 .. 2
  /\ proc = NoProc
  /\ log = <<>> /\ progressFile = NoFile
  /\ pc = "Idle"
  /\ ProcessIdle
  /\ alive = {} /\ mounts = {} /\ dirs = {} /\ created = {}
  /\ runs = 0 /\ faults = 0 /\ tampered = FALSE
  /\ InitialHistory
  /\ ScannerIdle /\ LocalsIdle

\* the process is started once
StartFirst == pc = "Idle" /\ StartRun

\* the steps of the orchestrator process itself
Process ==
  \/ LoadProgress
  \/ SelectCommits
  \/ InitAnalyzer
  \/ StartContainer
  \/ NextHit
  \/ AnalyzeCheck
  \/ AnalyzeExec
  \/ AppendStep
  \/ UpdateProgress
  \/ FinalSave
  \/ FinallyStop
  \/ InterruptSave
  \/ InterruptStop
  \/ InterruptFinally

NextLive ==
  \/ StartFirst
  \/ Process
  \/ Cancel
  \/ ContainerDies

\* every subprocess.run of the orchestrator has a timeout and every loop
\* runs over a finite list: a process that is not ended takes its next step
SpecLive == InitLive /\ [][NextLive]_vars /\ WF_vars(Process)

(* ---- save_progress and load_progress on their own ---- *)

\* progress.json opened for writing and not yet written in full: an empty or
\* partial JSON document
PartialFile == [processed_count |-> -2, last_commit_sha |-> None]

\* the progress dicts main may hold
ProgressValues ==
  [processed_count : 0 .. MaxHits, last_commit_sha : {None} \cup (1 .. MaxHits)]

\* main is about to call save_progress(progress); progress.json is missing or
\* holds an earlier checkpoint
InitPersist ==
  /\ hits = <<>> /\ files = {} /\ limit = None /\ batch_size = 1
  /\ proc = NoProc
  /\ log = <<>>
  /\ progressFile \in {NoFile} \cup ProgressValues
  /\ pc = "Save"
  /\ progress \in ProgressValues
  /\ todo = <<>> /\ i = 0 /\ side = "none"
  /\ before_result = NoResult /\ after_result = NoResult
  /\ result = NoComparison
  /\ container_id = None /\ shared_mount = None /\ analysis_dir = NoDir
  /\ alive = {} /\ mounts = {} /\ dirs = {} /\ created = {}
  /\ runs = 1 /\ faults = 0 /\ tampered = FALSE
  /\ InitialHistory
  /\ ScannerIdle /\ LocalsIdle

\* save_progress: open(self.progress_file, 'w') truncates the file in place
SaveOpen ==
  /\ pc = "Save"
  /\ progressFile' = PartialFile
  /\ pc' = "Write"
  /\ UNCHANGED <<inputVars, scanVars, log, progress, todo, i, callVars, workerVars,
                 histVars, countVars, envVars, faults>>

\* save_progress: json.dump writes the document and the with block closes
\* the file
SaveWrite ==
  /\ pc = "Write"
  /\ progressFile' = progress
  /\ pc' = "Saved"
  /\ UNCHANGED <<inputVars, scanVars, log, progress, todo, i, callVars, workerVars,
                 histVars, countVars, envVars, faults>>

\* the process is killed, or the machine goes down, inside save_progress
Crash ==
  /\ pc \in {"Save", "Write"}
  /\ pc' = "Crashed"
  /\ UNCHANGED <<inputVars, scanVars, log, progressFile, progress, todo, i, callVars,
                 workerVars, histVars, countVars, envVars, faults>>

\* the next run: main calls load_progress, whose json.load raises
\* JSONDecodeError on a document that is not complete; nothing catches it
Reload ==
  /\ pc \in {"Saved", "Crashed"}
  /\ runs' = runs + 1
  /\ IF progressFile = PartialFile
     THEN pc' = "LoadFailed" /\ UNCHANGED progress
     ELSE pc' = "Loaded" /\ progress' = LoadProgressFile(progressFile)
  /\ UNCHANGED <<inputVars, scanVars, log, progressFile, todo, i, callVars, workerVars,
                 histVars, countVars, tampered, faults>>

NextPersist ==
  \/ SaveOpen
  \/ SaveWrite
  \/ Crash
  \/ Reload

SpecPersist == InitPersist /\ [][NextPersist]_vars

(* ---- the comparator on its own: every pair of analysis results ---- *)

FindingLists ==
  UNION {[1 .. k -> 1 .. MaxFindings] : k \in 0 .. MaxFindings}

AllStdouts ==
  {Stdout(k, fs, 0) : k \in {"list", "dict"}, fs \in FindingLists}
    \cup {Stdout("text", <<>>, m) : m \in 0 .. MaxMarkers}
    \cup {Stdout(k, <<>>, 0) :
            k \in {"empty", "dict_nokey", "dict_null", "scalar"}}

\* every PoutineResult run_poutine_on_workflow can return
AnalysisResults ==
  {NotFoundResult, NotRunningResult, TimeoutResult, ErrorResult}
    \cup {ParseResult(out) : out \in AllStdouts}

InitCompare ==
  /\ hits = <<CommitInfo(1, PrevOf(1))>>
  /\ files = Snapshots /\ limit = None /\ batch_size = 1
  /\ proc = NoProc
  /\ log = <<>> /\ progressFile = NoFile
  /\ pc = "Compare"
  /\ progress = DefaultProgress /\ todo = hits /\ i = 0 /\ side = "none"
  /\ before_result \in AnalysisResults
  /\ after_result \in AnalysisResults
  /\ result = NoComparison
  /\ container_id = None /\ shared_mount = None /\ analysis_dir = NoDir
  /\ alive = {} /\ mounts = {} /\ dirs = {} /\ created = {}
  /\ runs = 0 /\ faults = 0 /\ tampered = FALSE
  /\ InitialHistory
  /\ ScannerIdle /\ LocalsIdle

\* compare_before_after once both analyses have returned
CompareStep ==
  /\ pc = "Compare"
  /\ result' = CompareResults(Commit, before_result, after_result)
  /\ pc' = "Compared"
  /\ UNCHANGED <<inputVars, scanVars, log, progressFile, progress, todo, i, side,
                 before_result, after_result, analysis_dir, call, lastCall,
                 workerVars, histVars, countVars, envVars, faults>>

NextCompare == CompareStep

SpecCompare == InitCompare /\ [][NextCompare]_vars

(* ---- one analyze call of each backend on its own ---- *)

ProcInputs ==
  {Proc(b, e, w, o, rc, out, we) :
     b \in Backends, e \in BOOLEAN, w \in BOOLEAN,
     o \in {"returned", "timeout", "error"}, rc \in {0, 1},
     out \in AllStdouts, we \in BOOLEAN}

InitAnalyze ==
  /\ hits = <<>> /\ files = {} /\ limit = None /\ batch_size = 1
  /\ proc \in ProcInputs
  /\ log = <<>> /\ progressFile = NoFile
  /\ pc = "Analyze"
  /\ progress = DefaultProgress /\ todo = <<>> /\ i = 0 /\ side = "none"
  /\ before_result = NoResult /\ after_result = NoResult
  /\ result = NoComparison
  /\ container_id = None /\ shared_mount = None /\ analysis_dir = NoDir
  /\ alive = {} /\ mounts = {} /\ dirs = {} /\ created = {}
  /\ runs = 0 /\ faults = 0 /\ tampered = FALSE
  /\ InitialHistory
  /\ ScannerIdle /\ LocalsIdle

\* run_poutine_on_workflow called and returned
AnalyzeStep ==
  /\ pc = "Analyze"
  /\ after_result' = RunPoutineOnWorkflow(proc)
  /\ pc' = "Analyzed"
  /\ UNCHANGED <<inputVars, scanVars, log, progressFile, progress, todo, i, side,
                 before_result, result, analysis_dir, call, lastCall,
                 workerVars, histVars, countVars, envVars, faults>>

NextAnalyze == AnalyzeStep

SpecAnalyze == InitAnalyze /\ [][NextAnalyze]_vars

(* ---- the index scanner: the keyword filter ---- *)
\* the orchestrator has not run
OrchestratorIdle ==
  /\ hits = <<>> /\ files = {} /\ limit = None /\ batch_size = 1
  /\ proc = NoProc
  /\ log = <<>> /\ progressFile = NoFile
  /\ pc = "Idle"
  /\ ProcessIdle
  /\ alive = {} /\ mounts = {} /\ dirs = {} /\ created = {}
  /\ runs = 0 /\ faults = 0 /\ tampered = FALSE
  /\ InitialHistory

orchVars == <<inputVars, log, progressFile, pc, progress, todo, i, callVars,
              workerVars, histVars, countVars, envVars, faults>>

\* a pattern is named by its source string (pat.pattern); the source strings
\* are ordered as the numbers are
PatternIds == 1 .. MaxPatterns

\* load_keywords: the default list followed by the lines of the keywords
\* file, which may repeat a source already registered
PatternLists == UNION {[1 .. n -> PatternIds] : n \in 0 .. MaxPatterns + 1}

\* a commit message, given by the pattern sources that find a match in it
Messages == SUBSET PatternIds

\* pat.search(msg)
Search(pat, m) == pat \in m

\* sorted() of a set: the ascending list of its elements
RECURSIVE Sorted(_)
Sorted(S) ==
  IF S = {} THEN <<>>
  ELSE LET lo == CHOOSE x \in S : \A y \in S : x <= y
       IN <<lo>> \o Sorted(S \ {lo})

\* the matching sources in registration order, repeated as registered
Matches_Registered(pats, m) == SelectSeq(pats, LAMBDA p : Search(p, m))

\* matches = sorted({pat.pattern for pat in patterns if pat.search(msg)})
Matches(pats, m) ==
  Sorted({pats[k] : k \in {j \in DOMAIN pats : Search(pats[j], m)}})

InitKeywords ==
  /\ OrchestratorIdle
  /\ index = <<>> /\ disk = <<>>
  /\ patterns \in PatternLists
  /\ spc = "Match" /\ wf = 0 /\ scan_hits = <<>> /\ diffs = {} /\ reads = <<>>
  /\ hits_jsonl = <<>> /\ hits_csv = <<>> /\ readme = Unwritten
  /\ all_commits = <<>>
  /\ msg \in Messages
  /\ matches = <<>> /\ raw_rel = <<>> /\ rel_path = <<>>
  /\ old_text = <<>> /\ new_text = <<>> /\ udiff = <<>>

\* the keyword filter applied to one commit message
MatchStep ==
  /\ spc = "Match"
  /\ matches' = Matches(patterns, msg)
  /\ spc' = "Matched"
  /\ UNCHANGED <<orchVars, index, disk, patterns, wf, scan_hits, diffs, reads,
                 hits_jsonl, hits_csv, readme, all_commits, msg, raw_rel,
                 rel_path, old_text, new_text, udiff>>

NextKeywords == MatchStep

SpecKeywords == InitKeywords /\ [][NextKeywords]_vars

(* ---- the index scanner: the snapshot resolver's path handling ---- *)
\* a path string is a list of characters; a path is a list of parts, each a
\* list of characters. The host is POSIX: Path(*p.parts) keeps the parts it
\* is given. The strings hold no drive letter (no colon) and no UNC share
\* (none begins with two back-slashes).
PathChars == {"a", "b", ".", "/", "\\"}

PathStrings ==
  {str \in UNION {[1 .. n -> PathChars] : n \in 1 .. MaxLen} :
     ~(Len(str) >= 2 /\ str[1] = "\\" /\ str[2] = "\\")}

\* the pieces of str between the separators seps, empty pieces included
RECURSIVE Split(_, _)
Split(str, seps) ==
  IF str = <<>> THEN << <<>> >>
  ELSE LET rest == Split(Tail(str), seps)
       IN IF Head(str) \in seps
          THEN << <<>> >> \o rest
          ELSE << <<Head(str)>> \o Head(rest) >> \o Tail(rest)

\* pathlib drops empty pieces and "." pieces
Components(str, seps) ==
  SelectSeq(Split(str, seps), LAMBDA c : c # <<>> /\ c # <<".">>)

\* PurePosixPath(rel).parts: "/" separates; a leading "/" is the root part,
\* exactly two leading slashes are the root part "//"
PosixParts(str) ==
  LET lead == IF Len(str) >= 2 /\ str[1] = "/" /\ str[2] = "/"
                   /\ (Len(str) = 2 \/ str[3] # "/")
              THEN << <<"/", "/">> >>
              ELSE IF str # <<>> /\ str[1] = "/" THEN << <<"/">> >>
              ELSE <<>>
  IN lead \o Components(str, {"/"})

\* PureWindowsPath(rel).parts: both "\\" and "/" separate; a leading
\* separator is the root part "\\"
WindowsParts(str) ==
  LET lead == IF str # <<>> /\ str[1] \in {"/", "\\"}
              THEN << <<"\\">> >> ELSE <<>>
  IN lead \o Components(str, {"/", "\\"})

\* normalize_relpath read as POSIX whatever the separators
NormalizeRelpath_Posix(rel) == PosixParts(rel)

\* normalize_relpath
NormalizeRelpath(rel) ==
  IF "\\" \in Range(rel) /\ "/" \notin Range(rel)
  THEN WindowsParts(rel)
  ELSE PosixParts(rel)

\* the dataset root, an absolute path
DataRoot == << <<"/">>, <<"d">> >>

\* root / rel_path: an anchored right operand replaces the left one
UnderRoot(p) ==
  IF p # <<>> /\ Head(p) \in {<<"/">>, <<"/", "/">>} THEN p
  ELSE DataRoot \o p

InitPath ==
  /\ OrchestratorIdle
  /\ index = <<>> /\ disk = <<>> /\ patterns = <<>>
  /\ spc = "Normalize" /\ wf = 0 /\ scan_hits = <<>> /\ diffs = {}
  /\ reads = <<>>
  /\ hits_jsonl = <<>> /\ hits_csv = <<>> /\ readme = Unwritten
  /\ all_commits = <<>>
  /\ msg = {} /\ matches = <<>>
  /\ raw_rel \in PathStrings
  /\ rel_path = <<>>
  /\ old_text = <<>> /\ new_text = <<>> /\ udiff = <<>>

\* rel_path = normalize_relpath(raw_rel)
NormalizeStep ==
  /\ spc = "Normalize"
  /\ rel_path' = NormalizeRelpath(raw_rel)
  /\ spc' = "Normalized"
  /\ UNCHANGED <<orchVars, index, disk, patterns, wf, scan_hits, diffs, reads,
                 hits_jsonl, hits_csv, readme, all_commits, msg, matches,
                 raw_rel, old_text, new_text, udiff>>

NextPath == NormalizeStep

SpecPath == InitPath /\ [][NextPath]_vars

(* ---- the index scanner: the diff generator ---- *)
\* a text is a list of characters; "\n" ends a line
TextChars == {"a", "b", "\n"}

Texts == UNION {[1 .. n -> TextChars] : n \in 0 .. MaxLen}

\* difflib.unified_diff, the default number of context lines
Context == 3

\* str.splitlines(keepends=True): every line keeps its terminator, the last
\* line has none when the text does not end in one
RECURSIVE SplitLines(_)
SplitLines(t) ==
  IF t = <<>> THEN <<>>
  ELSE LET ends == {k \in 1 .. Len(t) : t[k] = "\n"}
           k == IF ends = {} THEN Len(t)
                ELSE CHOOSE e \in ends : \A f \in ends : e <= f
       IN <<SubSeq(t, 1, k)>> \o SplitLines(SubSeq(t, k + 1, Len(t)))

\* "".join(lines)
RECURSIVE Join(_)
Join(ls) == IF ls = <<>> THEN <<>> ELSE Head(ls) \o Join(Tail(ls))

\* length of the run of equal lines of a from i and of b from j
RECURSIVE RunLen(_, _, _, _)
RunLen(a, b, i1, j1) ==
  IF i1 > Len(a) \/ j1 > Len(b) THEN 0
  ELSE IF a[i1] # b[j1] THEN 0
  ELSE 1 + RunLen(a, b, i1 + 1, j1 + 1)

\* SequenceMatcher.find_longest_match without junk: the longest block of
\* equal lines, the one starting earliest in a, then earliest in b
LongestMatch(a, b) ==
  LET cands == (1 .. Len(a)) \X (1 .. Len(b))
      Better(c, e) ==
        \/ RunLen(a, b, c[1], c[2]) > RunLen(a, b, e[1], e[2])
        \/ /\ RunLen(a, b, c[1], c[2]) = RunLen(a, b, e[1], e[2])
           /\ (c[1] < e[1] \/ (c[1] = e[1] /\ c[2] <= e[2]))
  IN IF cands = {} THEN [i |-> 1, j |-> 1, k |-> 0]
     ELSE LET c == CHOOSE x \in cands : \A y \in cands : Better(x, y)
          IN [i |-> c[1], j |-> c[2], k |-> RunLen(a, b, c[1], c[2])]

\* the lines ls, each under tag t
Tagged(t, ls) == [k \in DOMAIN ls |-> [tag |-> t, line |-> ls[k]]]

\* SequenceMatcher.get_opcodes, line by line as unified_diff prints them:
\* an equal block as " " lines, a gap as the "-" lines of a and then the
\* "+" lines of b
RECURSIVE Opcodes(_, _)

\* the opcodes of a and b around their longest matching block m
AroundMatch(a, b, m) ==
  IF m.k = 0 THEN Tagged("-", a) \o Tagged("+", b)
  ELSE Opcodes(SubSeq(a, 1, m.i - 1), SubSeq(b, 1, m.j - 1))
         \o Tagged(" ", SubSeq(a, m.i, m.i + m.k - 1))
         \o Opcodes(SubSeq(a, m.i + m.k, Len(a)),
                    SubSeq(b, m.j + m.k, Len(b)))

Opcodes(a, b) ==
  IF a = <<>> /\ b = <<>> THEN <<>>
  ELSE AroundMatch(a, b, LongestMatch(a, b))

\* number of " " lines at the front of ops
RECURSIVE Leading(_)
Leading(ops) ==
  IF ops = <<>> THEN 0
  ELSE IF Head(ops).tag # " " THEN 0
  ELSE 1 + Leading(Tail(ops))

Reverse(s) == [k \in DOMAIN s |-> s[Len(s) + 1 - k]]

\* one printed line of a hunk: the tag and then the line as it is, with or
\* without its terminator
Printed(op) == <<op.tag>> \o op.line

\* _format_range_unified: start and length of one side of a hunk
HunkStart(start, length) == IF length = 0 THEN start ELSE start + 1

\* unified_diff_text: no hunk for equal texts; texts this short give one
\* hunk, its leading and trailing equal lines cut to Context lines. The two
\* label lines in front of the hunk end in "\n" and are left out.
\* the hunk that prints the opcode lines kept, cut lines in front left out
Hunk(kept, cut) ==
  LET alen == Len(SelectSeq(kept, LAMBDA o : o.tag # "+"))
      blen == Len(SelectSeq(kept, LAMBDA o : o.tag # "-"))
  IN [a_start |-> HunkStart(cut, alen), a_len |-> alen,
      b_start |-> HunkStart(cut, blen), b_len |-> blen,
      body |-> Join([k \in DOMAIN kept |-> Printed(kept[k])])]

\* get_grouped_opcodes: the opcode lines ops with lead equal lines in front
\* and trail behind, both cut to Context lines
Grouped(ops, lead, trail) ==
  LET cut == IF lead > Context THEN lead - Context ELSE 0
      end == IF trail > Context THEN Len(ops) - (trail - Context)
             ELSE Len(ops)
  IN IF lead = Len(ops) THEN <<>>
     ELSE << Hunk(SubSeq(ops, cut + 1, end), cut) >>

GroupedOpcodes(ops) == Grouped(ops, Leading(ops), Leading(Reverse(ops)))

UnifiedDiffText(old, new) ==
  GroupedOpcodes(Opcodes(SplitLines(old), SplitLines(new)))

InitDiff ==
  /\ OrchestratorIdle
  /\ ScannerIdle
  /\ msg = {} /\ matches = <<>> /\ raw_rel = <<>> /\ rel_path = <<>>
  /\ old_text \in Texts
  /\ new_text \in Texts
  /\ udiff = <<>>

\* udiff = unified_diff_text(old_text, new_text, ...)
DiffStep ==
  /\ spc = "Idle"
  /\ udiff' = UnifiedDiffText(old_text, new_text)
  /\ spc' = "Diffed"
  /\ UNCHANGED <<orchVars, index, disk, patterns, wf, scan_hits, diffs, reads,
                 hits_jsonl, hits_csv, readme, all_commits, msg, matches,
                 raw_rel, rel_path, old_text, new_text>>

NextDiff == DiffStep

SpecDiff == InitDiff /\ [][NextDiff]_vars

(* ---- the index scanner: scan_repo_workflow_json and main ---- *)
\* A snapshot file path under the dataset root, root / rel_path: the
\* workflow's directory, the sha the file is named after, and the number of
\* ".gz" suffixes after the recorded extension.
SnapPath(w, s) == [wf |-> w, sha |-> s, gz |-> 0]

\* no file
NoPath == [wf |-> 0, sha |-> 0, gz |-> 0]

\* curr_path.with_suffix(curr_path.suffix + ".gz")
WithGz(p) == [p EXCEPT !.gz = @ + 1]

\* Path.exists(): the disk maps the files that exist to their decoded text
Exists(p, dsk) == p \in DOMAIN dsk

\* the path used as it is recorded, whatever is on disk
Resolve_Recorded(p, dsk) == p

\* lines 91-95 and 104-107: the recorded path, or the ".gz" variant when
\* the recorded file is absent and the variant exists
Resolve(p, dsk) ==
  IF ~Exists(p, dsk) /\ Exists(WithGz(p), dsk) THEN WithGz(p) ELSE p

\* lines 110-115 with read_text_maybe_gz: the text of an existing file, ""
\* for no file
ReadText(p, dsk) == IF Exists(p, dsk) THEN dsk[p] ELSE <<>>

\* the commit one index newer
Predecessor_Newer(commits, idx) == IF idx > 1 THEN idx - 1 ELSE None

\* lines 99-101: the index of the chronological predecessor in a
\* newest-first history, None for the oldest commit
Predecessor(commits, idx) ==
  IF idx + 1 <= Len(commits) THEN idx + 1 ELSE None

\* every commit is a hit
IsHit_Always(ms) == TRUE

\* lines 82-83: a commit with no matching pattern is skipped
IsHit(ms) == ms # <<>>

\* diff_file_rel: diffs/<org>/<repo>/<workflow leaf>/<sha>.patch, one number
\* per workflow and sha
DiffRelpath(w, s) == w * (MaxCommits + 2) + s

\* a commit record whose message is null: pat.search(None) raises TypeError
NullMessage == {None}

\* One pass of the loop body of scan_repo_workflow_json for commits[idx] of
\* document doc: whether it raises, whether the commit is a hit, the entry,
\* the diff artifact written and the files read. org and commit_date are
\* carried like repo and left out.
ScanCommit(doc, idx, dsk, pats) ==
  LET c == doc.commits[idx]
      ms == Matches(pats, c.message)
      rel == c.raw_snapshot_relpath
      curr_path == Resolve(rel, dsk)
      pidx == Predecessor(doc.commits, idx)
      prev_sha == IF pidx # None THEN doc.commits[pidx].sha ELSE None
      prev_path == IF pidx # None
                   THEN Resolve(doc.commits[pidx].raw_snapshot_relpath, dsk)
                   ELSE NoPath
      new_t == ReadText(curr_path, dsk)
      old_t == IF prev_path # NoPath THEN ReadText(prev_path, dsk) ELSE <<>>
      written == new_t # <<>> /\ old_t # <<>>
      diff_file_rel == IF written THEN DiffRelpath(doc.repo, c.sha) ELSE None
  IN [raises |-> c.message = NullMessage,
      hit |-> IsHit(ms),
      entry |-> [repo |-> doc.repo,
                 workflow_path |-> doc.workflow_path,
                 commit_sha |-> c.sha,
                 matched_keywords |-> ms,
                 message |-> c.message,
                 snapshot_relpath |-> rel,
                 prev_sha |-> prev_sha,
                 diff_relpath |-> diff_file_rel],
      diffs |-> IF written
                THEN {[path |-> diff_file_rel,
                       text |-> UnifiedDiffText(old_t, new_t)]}
                ELSE {},
      read |-> [curr |-> IF Exists(curr_path, dsk) THEN curr_path
                         ELSE NoPath,
                prev |-> IF prev_path # NoPath /\ Exists(prev_path, dsk)
                         THEN prev_path ELSE NoPath]]

\* scan_repo_workflow_json from index idx on: whether it raised, the
\* results it returns when it did not, and the diff artifacts it wrote on
\* the way, which stay on disk in both cases. A document json.loads
\* rejects raises before the loop.
\* the outcome of the loop from one commit on, given the pass s over that
\* commit and the outcome rest of the later passes: an exception ends the
\* loop, a commit that is no hit is skipped (continue), a hit is appended
Collect(s, rest) ==
  IF s.raises
  THEN [raised |-> TRUE, results |-> <<>>, diffs |-> {}, reads |-> <<>>]
  ELSE IF ~s.hit THEN rest
  ELSE [raised |-> rest.raised,
        results |-> <<s.entry>> \o rest.results,
        diffs |-> s.diffs \cup rest.diffs,
        reads |-> <<s.read>> \o rest.reads]

RECURSIVE ScanRepoWorkflowJson(_, _, _, _)
ScanRepoWorkflowJson(doc, idx, dsk, pats) ==
  IF ~doc.parses
  THEN [raised |-> TRUE, results |-> <<>>, diffs |-> {}, reads |-> <<>>]
  ELSE IF idx > Len(doc.commits)
  THEN [raised |-> FALSE, results |-> <<>>, diffs |-> {}, reads |-> <<>>]
  ELSE Collect(ScanCommit(doc, idx, dsk, pats),
               ScanRepoWorkflowJson(doc, idx + 1, dsk, pats))

\* main, lines 190-193: the entry recorded for a workflow whose scan raised
ErrorEntry(w) ==
  [repo |-> w, workflow_path |-> None, commit_sha |-> None,
   error |-> "error"]

IsError(h) == "error" \in DOMAIN h

\* the fieldnames of hits.csv
CsvFields ==
  {"repo", "workflow_path", "commit_sha", "matched_keywords",
   "snapshot_relpath", "prev_sha", "diff_relpath", "message"}

\* the empty string, and the "|" between two joined keywords
Blank == -1
Bar == -2

\* "|".join(matched_keywords)
RECURSIVE PipeJoin(_)
PipeJoin(ks) ==
  IF Len(ks) <= 1 THEN ks
  ELSE <<Head(ks), Bar>> \o PipeJoin(Tail(ks))

\* the cell csv writes for a value: None becomes the empty string
CsvCell(v) == IF v = None THEN Blank ELSE v

\* the row main writes for a hit, lines 208-212
CsvRow(h) ==
  [repo |-> h.repo,
   workflow_path |-> CsvCell(h.workflow_path),
   commit_sha |-> CsvCell(h.commit_sha),
   matched_keywords |-> PipeJoin(h.matched_keywords),
   snapshot_relpath |-> h.snapshot_relpath,
   prev_sha |-> CsvCell(h.prev_sha),
   diff_relpath |-> CsvCell(h.diff_relpath),
   message |-> h.message]

\* DictWriter.writerow raises ValueError for a key outside the fieldnames
RowRaises(h) == ~(DOMAIN h \subseteq CsvFields)

\* number of entries in front of the first one that makes writerow raise
RECURSIVE RowsWritten(_)
RowsWritten(hs) ==
  IF hs = <<>> THEN 0
  ELSE IF RowRaises(Head(hs)) THEN 0
  ELSE 1 + RowsWritten(Tail(hs))

\* the fields of the dataclass CommitInfo
CommitInfoFields ==
  {"repo", "workflow_path", "commit_sha", "matched_keywords", "message",
   "snapshot_relpath", "prev_sha", "diff_relpath"}

\* CommitInfo(**data) raises TypeError for a missing or an unexpected key
CommitInfoRaises(data) == DOMAIN data # CommitInfoFields

\* load_commits_from_jsonl raises when one line does
JsonlRaises(lines) ==
  \E k \in DOMAIN lines : CommitInfoRaises(lines[k])

\* eval(keywords_str) of a non-empty cell raises: pattern sources joined by
\* "|" are no Python expression (every default pattern starts with "\b")
EvalRaises(cell) == cell # <<>>

\* load_commits_from_csv raises when eval does for one row
CsvRaises(rows) ==
  \E k \in DOMAIN rows : EvalRaises(rows[k].matched_keywords)

\* load_commits_from_csv for rows whose keyword cells are all empty
LoadCommitsFromCsv(rows) ==
  [k \in DOMAIN rows |-> [rows[k] EXCEPT !.matched_keywords = <<>>]]

\* load_keywords without a keywords file: the default list, registered
\* here in descending order of the sources
DefaultKeywords == [k \in 1 .. MaxPatterns |-> MaxPatterns + 1 - k]

\* the messages tried by the scan: no pattern matches, one does, all do
ScanMessages == {{}, {1}, PatternIds}

\* what the dataset holds for one recorded snapshot path: the file, only
\* its ".gz" variant, nothing, an empty file, or an empty file beside a
\* ".gz" variant
SnapshotKinds == {"plain", "gz", "absent", "empty", "shadowed"}

\* the text of the snapshot of sha s
SnapText(s) == IF s % 2 = 1 THEN <<"a", "\n">> ELSE <<"b", "\n">>

\* the files on disk for the snapshot of sha s of workflow w
FilesOf(w, s, kind) ==
  (IF kind = "plain" THEN {[path |-> SnapPath(w, s), text |-> SnapText(s)]}
   ELSE IF kind \in {"empty", "shadowed"}
   THEN {[path |-> SnapPath(w, s), text |-> <<>>]}
   ELSE {})
  \cup
  (IF kind \in {"gz", "shadowed"}
   THEN {[path |-> WithGz(SnapPath(w, s)), text |-> SnapText(s)]}
   ELSE {})

\* the disk holding the files fs
DiskOf(fs) ==
  [p \in {f.path : f \in fs} |-> (CHOOSE f \in fs : f.path = p).text]

\* an index document: whether json.loads accepts it, and its content
Doc(w, cs) ==
  [parses |-> TRUE, repo |-> w, workflow_path |-> w, commits |-> cs]

Malformed(w) ==
  [parses |-> FALSE, repo |-> w, workflow_path |-> w, commits |-> <<>>]

\* a newest-first history of workflow w with the messages ms: the commit
\* at index k has sha n + 1 - k, the oldest has sha 1
History(w, ms) ==
  [k \in DOMAIN ms |->
     [sha |-> Len(ms) + 1 - k, message |-> ms[k],
      raw_snapshot_relpath |-> SnapPath(w, Len(ms) + 1 - k)]]

\* the documents of a walk over several workflows: one json.loads rejects,
\* one whose older commit record has a null message, and two that are sound
SampleDoc(sel, w) ==
  IF sel = "malformed" THEN Malformed(w)
  ELSE IF sel = "partial"
  THEN Doc(w, History(w, <<PatternIds, NullMessage>>))
  ELSE IF sel = "one" THEN Doc(w, History(w, <<PatternIds>>))
  ELSE Doc(w, History(w, <<{1}, PatternIds>>))

\* the scan of one workflow with any history and any dataset
InitScanOne ==
  \E n \in 0 .. MaxCommits :
    \E ms \in [1 .. n -> ScanMessages], ks \in [1 .. n -> SnapshotKinds] :
      /\ index = <<Doc(1, History(1, ms))>>
      /\ disk = DiskOf(UNION {FilesOf(1, s, ks[s]) : s \in 1 .. n})

\* the walk over several workflows, some of them malformed
InitScanMany ==
  \E n \in 1 .. MaxWorkflows :
    \E sel \in [1 .. n -> {"malformed", "partial", "one", "two"}] :
      /\ index = [w \in 1 .. n |-> SampleDoc(sel[w], w)]
      /\ disk = DiskOf(UNION {FilesOf(w, 1, "plain") \cup FilesOf(w, 2, "gz")
                                : w \in 1 .. n})

InitScan ==
  /\ OrchestratorIdle
  /\ InitScanOne \/ InitScanMany
  /\ patterns = DefaultKeywords
  /\ spc = "Walk" /\ wf = 1 /\ scan_hits = <<>> /\ diffs = {} /\ reads = <<>>
  /\ hits_jsonl = <<>> /\ hits_csv = <<>> /\ readme = Unwritten
  /\ all_commits = <<>>
  /\ LocalsIdle

\* main, lines 184-193: one index document of the walk
ScanWorkflow ==
  /\ spc = "Walk" /\ wf <= Len(index)
  /\ LET r == ScanRepoWorkflowJson(index[wf], 1, disk, patterns)
     IN /\ IF ~r.raised
           THEN /\ scan_hits' = scan_hits \o r.results
                /\ reads' = reads \o r.reads
           ELSE /\ scan_hits' = Append(scan_hits, ErrorEntry(index[wf].repo))
                /\ reads' = Append(reads, [curr |-> NoPath, prev |-> NoPath])
        /\ diffs' = diffs \cup r.diffs
  /\ wf' = wf + 1
  /\ UNCHANGED <<orchVars, index, disk, patterns, spc, hits_jsonl, hits_csv,
                 readme, all_commits, localVars>>

\* main, lines 196-199: one JSON object per line; json.dumps and json.loads
\* carry strings, lists of strings and null unchanged
WriteJsonl ==
  /\ spc = "Walk" /\ wf > Len(index)
  /\ hits_jsonl' = scan_hits
  /\ spc' = "Csv"
  /\ UNCHANGED <<orchVars, index, disk, patterns, wf, scan_hits, diffs, reads,
                 hits_csv, readme, all_commits, localVars>>

\* main, lines 202-212: the rows up to the first entry writerow rejects;
\* the ValueError is not caught and ends the scanner
WriteCsv ==
  /\ spc = "Csv"
  /\ hits_csv' = [k \in 1 .. RowsWritten(scan_hits) |-> CsvRow(scan_hits[k])]
  /\ spc' = IF RowsWritten(scan_hits) < Len(scan_hits) THEN "Crashed"
            ELSE "Readme"
  /\ UNCHANGED <<orchVars, index, disk, patterns, wf, scan_hits, diffs, reads,
                 hits_jsonl, readme, all_commits, localVars>>

\* main, lines 215-243: the report with the number of hits
WriteReadme ==
  /\ spc = "Readme"
  /\ readme' = Len(SelectSeq(scan_hits, LAMBDA h : ~IsError(h)))
  /\ spc' = "Done"
  /\ UNCHANGED <<orchVars, index, disk, patterns, wf, scan_hits, diffs, reads,
                 hits_jsonl, hits_csv, all_commits, localVars>>

\* the orchestrator's main, lines 245-248, given hits.jsonl
LoadJsonl ==
  /\ spc \in {"Done", "Crashed"}
  /\ IF JsonlRaises(hits_jsonl)
     THEN spc' = "JsonlRaised" /\ UNCHANGED all_commits
     ELSE spc' = "LoadedJsonl" /\ all_commits' = hits_jsonl
  /\ UNCHANGED <<orchVars, index, disk, patterns, wf, scan_hits, diffs, reads,
                 hits_jsonl, hits_csv, readme, localVars>>

\* the orchestrator's main, lines 249-250, given hits.csv
LoadCsv ==
  /\ spc \in {"Done", "Crashed"}
  /\ IF CsvRaises(hits_csv)
     THEN spc' = "CsvRaised" /\ UNCHANGED all_commits
     ELSE spc' = "LoadedCsv" /\ all_commits' = LoadCommitsFromCsv(hits_csv)
  /\ UNCHANGED <<orchVars, index, disk, patterns, wf, scan_hits, diffs, reads,
                 hits_jsonl, hits_csv, readme, localVars>>

NextScan ==
  \/ ScanWorkflow
  \/ WriteJsonl
  \/ WriteCsv
  \/ WriteReadme
  \/ LoadJsonl
  \/ LoadCsv

SpecScan == InitScan /\ [][NextScan]_vars

(* ======================= the claims ======================= *)

Shas(l) == [k \in 1 .. Len(l) |-> l[k].commit_sha]

\* C1: once a run has completed (no cap), whatever runs were cancelled
\* before it, the result log holds exactly one entry per hit of the list,
\* in list order.
C1_OneResultPerHit ==
  (pc = "Completed" /\ limit = None) => Shas(log) = Shas(hits)

\* C2: a run started after a completed run selects no hit and leaves the
\* result log as it found it.
C2_ResumeIdempotent ==
  (lastExit = "Completed" /\ pc \notin {"Loading", "Select"})
    => (todo = <<>> /\ log = logAtStart)

\* C3: whenever the loop is about to take its next hit, every hit handled
\* so far in this run has exactly one entry in the log, in order.
C3_EveryHitLogged ==
  pc = "Loop" =>
    /\ Len(log) = Len(logAtStart) + i
    /\ \A k \in 1 .. i :
         log[Len(logAtStart) + k].commit_sha = todo[k].commit_sha

\* C4: after the progress load, and until the first hit is taken, the
\* counter in memory and the counter a reader of progress.json gets are both
\* the number of log entries, and the log is the one the run found.
C4_SelfHeal ==
  (pc \in {"Select", "InitAnalyzer", "StartContainer"} \/ (pc = "Loop" /\ i = 0))
    => /\ progress.processed_count = CountActualResults(log)
       /\ LoadProgressFile(progressFile).processed_count
            = CountActualResults(log)
       /\ log = logAtStart

C4_Witness ==
  /\ pc = "Select" /\ mismatch /\ Len(log) > 0
  /\ progressFile.processed_count = Len(log)

\* C5: every step leaves the earlier result log as a prefix of the later one.
C5_AppendOnly == [][IsPrefix(log, log')]_vars

C5_Witness ==
  /\ runs >= 2 /\ Len(logAtStart) > 0 /\ Len(log) > Len(logAtStart)
  /\ faults > 0 /\ cancelPc # "none"

\* C6: weaknesses_reduced holds exactly when both analyses succeeded and
\* reduction_count = before_count - after_count > 0; when an analysis failed,
\* weaknesses_reduced is false and reduction_count is 0.
C6_ReducedIffBothSucceeded ==
  LET both == result.before_result.success /\ result.after_result.success
  IN /\ result.weaknesses_reduced <=>
          (/\ both
           /\ result.reduction_count = result.before_count - result.after_count
           /\ result.reduction_count > 0)
     /\ ~both => (~result.weaknesses_reduced /\ result.reduction_count = 0)

C6_Witness ==
  /\ pc = "Compared" /\ result.weaknesses_reduced
  /\ result.reduction_count = MaxFindings

\* positions of the process once a KeyboardInterrupt handler has taken over
Unwinding == {"IntSave", "IntStop", "IntFinally", "Interrupted"}

C9_WorkerTornDown == pc \in Terminal => created \cap alive = {}

\* C10: the analyzer is executed only after the worker has been inspected
\* in the same call; a worker found stopped is restarted, once; a call whose
\* restart succeeded runs the analyzer in the new worker and, when the command
\* returns, returns a successful result.
CallSelfHeals(c) ==
  /\ c.restarts <= 1
  /\ c.found = "stopped" => c.restarts = 1
  /\ c.found = "running" => c.restarts = 0
  /\ c.execIn # None => c.checked
  /\ c.newWorker # None =>
       /\ c.outcome \in {"none", "returned", "timeout", "error"}
       /\ c.execIn \in {None, c.newWorker}
       /\ c.outcome = "returned" => c.result.success

C10_SelfHeal ==
  /\ pc = "Exec" =>
       (/\ call.checked
        /\ call.found \in {"running", "stopped"}
        /\ call.found = "stopped" => container_id = call.newWorker)
  /\ CallSelfHeals(call)
  /\ CallSelfHeals(lastCall)

C10_Witness ==
  /\ lastCall.found = "stopped" /\ lastCall.newWorker # None
  /\ lastCall.execIn = lastCall.newWorker
  /\ lastCall.outcome = "returned" /\ lastCall.result.success

\* the steps of a hit one of whose analyses returned the failed result r:
\* the comparator keeps r, the comparison that holds r is appended to the
\* result log, and the loop goes on to the next hit; only a cancellation
\* takes the hit off this path
Recorded(r) ==
  /\ (pc \in InFlight /\ r \in {before_result, after_result}) =>
       /\ pc' \in InFlight \cup {"Append", "IntSave"}
       /\ pc' # "IntSave" => r \in {before_result', after_result'}
  /\ (pc = "Append" /\ r \in {before_result, after_result}) =>
       \/ pc' \in {"Append", "IntSave"}
       \/ /\ pc' = "Update"
          /\ r \in {result'.before_result, result'.after_result}
          /\ result'.commit_info = Commit
          /\ log' = Append(log, ToDict(result'))
  /\ (pc = "Update" /\ r \in {result.before_result, result.after_result}) =>
       \/ pc' \in {"Update", "IntSave"}
       \/ pc' = "Loop" /\ i' = i + 1 /\ todo' = todo /\ log' = log

\* an analyze call that found the worker stopped and could not restart it
FailedRecreate(c) ==
  /\ c.found = "stopped" /\ c.restarts = 1 /\ c.newWorker = None
  /\ c.outcome = "noworker"

\* C11: an analyze call that finds the worker stopped and fails to restart
\* it returns a result with success = false to the comparator; the
\* comparison of that hit is appended to the result log and the loop goes
\* on to the next hit.
C11_DownHitRecorded ==
  /\ [](FailedRecreate(lastCall) =>
         /\ ~lastCall.result.success
         /\ lastCall.result.findings_count = 0
         /\ lastCall.result \in {before_result, after_result})
  /\ [][Recorded(NotRunningResult)]_vars

C11_Witness ==
  /\ pc = "Check" /\ i = 1 /\ Len(log) = 1
  /\ todo[1].prev_sha \in files
  /\ ~log[1].before_success /\ log[1].after_success
  /\ downs = 2 /\ faults = 1

\* C12: an analyzer command that exceeds its timeout makes the call return
\* a result with success = false and the timeout message; the comparison of
\* that hit is appended to the result log and the loop goes on to the next
\* hit.
C12_TimeoutRecorded ==
  /\ [](lastCall.outcome = "timeout" =>
         /\ ~lastCall.result.success
         /\ lastCall.result.error_message = "Poutine execution timed out"
         /\ lastCall.result.findings_count = 0
         /\ lastCall.result \in {before_result, after_result})
  /\ [][Recorded(TimeoutResult)]_vars

C12_Witness ==
  /\ pc = "Check" /\ i = 1 /\ Len(log) = 1 /\ faults = 1
  /\ log[1].commit_sha = todo[1].commit_sha
  /\ ~log[1].before_success /\ log[1].after_success
  /\ todo[1].prev_sha \in files /\ downs = 0

\* C13: a hit whose predecessor is missing (prev_sha null, or no snapshot
\* file of the predecessor) has, once the loop has handled it, the last entry
\* of the result log, with before_success = false.
C13_MissingPredecessorRecorded ==
  (/\ pc = "Loop" /\ i > 0
   /\ (todo[i].prev_sha = None \/ todo[i].prev_sha \notin files))
    => /\ Len(log) > Len(logAtStart)
       /\ log[Len(log)].commit_sha = todo[i].commit_sha
       /\ ~log[Len(log)].before_success

\* C14: a process that stopped inside save_progress leaves progress.json
\* either as it was or as the complete new checkpoint, never an empty or
\* partial document, and the load of the next run succeeds.
C14_AtomicPersist ==
  /\ pc = "Crashed" => progressFile # PartialFile
  /\ pc # "LoadFailed"

\* C15: a result with success = false returned by any backend, whatever the
\* call met, has no findings and a findings count of 0.
C15_FailureHasNoFindings ==
  (pc = "Analyzed" /\ ~after_result.success)
    => (after_result.findings = <<>> /\ after_result.findings_count = 0)

C15_Witness ==
  /\ pc = "Analyzed" /\ ~after_result.success
  /\ proc.backend = "native" /\ proc.exists /\ proc.outcome = "returned"
  /\ proc.returncode = 0 /\ proc.stdout.kind = "dict_null"

\* C16: the persistent-worker backend, when the analyzer command returned:
\* stdout that is a JSON list gives its elements as findings and its length
\* as count; a JSON object whose findings key holds a list gives that list
\* and its length; text that is no JSON gives no findings, the number of
\* 'Finding:' occurrences as count, and success = true.
C16_ParsePolicy ==
  (/\ pc = "Analyzed" /\ proc.backend = "optimized"
   /\ proc.exists /\ proc.worker /\ proc.outcome = "returned")
    => LET out == proc.stdout
           r == after_result
       IN /\ out.kind \in {"list", "dict"} =>
               (/\ r.success
                /\ r.findings = out.items
                /\ r.findings_count = Len(out.items))
          /\ out.kind = "text" =>
               (/\ r.success
                /\ r.findings = <<>>
                /\ r.findings_count = out.markers)

C16_Witness ==
  /\ pc = "Analyzed" /\ proc.backend = "optimized"
  /\ proc.exists /\ proc.worker /\ proc.outcome = "returned"
  /\ proc.stdout.kind = "text" /\ proc.stdout.markers = MaxMarkers
  /\ after_result = PoutineResult(TRUE, "none", MaxMarkers, <<>>)

\* C17: in every backend, a call whose analyzer command returned a findings
\* list on stdout gives the findings and the count that the same stdout
\* gives with exit code 0.
C17_ExitCodeIgnored ==
  (/\ pc = "Analyzed" /\ proc.outcome = "returned"
   /\ proc.stdout.kind = "list")
    => LET zero == RunPoutineOnWorkflow([proc EXCEPT !.returncode = 0])
       IN /\ after_result.findings_count = zero.findings_count
          /\ after_result.findings = zero.findings

\* C18: with a cap given (here 0), the result log never holds more entries
\* than the cap, and a run that finds the log at the cap or beyond selects no
\* hit and leaves the log as it found it.
C18_CapHonored ==
  /\ Len(log) <= limit
  /\ (Len(logAtStart) >= limit /\ pc \notin {"Idle", "Loading", "Select"})
       => (todo = <<>> /\ log = logAtStart)

\* positions of main inside the try block and its handlers
InTry == Running \cup {"Finally", "IntSave", "IntStop", "IntFinally"}

\* C19: a run that fails at startup (docker or the image is not available,
\* or the worker cannot be started) has handed no hit to the comparator and
\* has left the result log as it found it; no run is in its loop without a
\* started worker.
C19_FailsFast ==
  /\ pc = "Failed" =>
       /\ log = logAtStart /\ i = 0 /\ side = "none"
       /\ call = NewCall /\ lastCall = NoCall
  /\ container_id = None => pc \notin InTry

C19_Witness ==
  /\ pc = "Failed" /\ starts = 1 /\ container_id = None
  /\ Len(log) > 0 /\ todo # <<>>

\* C20: no hit is taken before start_container has been called, and in a
\* run the calls of start_container number one more than the worker checks
\* that found the worker not running, however many hits were processed.
C20_CreatedOnce ==
  /\ pc \in InTry => starts >= 1
  /\ starts = 0 => downs = 0
  /\ starts > 0 => starts = 1 + downs

C20_Witness ==
  /\ pc = "Completed" /\ i = MaxHits /\ Len(log) = Len(logAtStart) + MaxHits
  /\ starts = 2 /\ downs = 1
\* the registration orders of the patterns in list s
Orders(s) ==
  {[k \in DOMAIN s |-> s[f[k]]] : f \in Permutations(DOMAIN s)}

\* C25: for every commit message and every pattern list, the keyword filter
\* returns the ascending list, without repetition, of exactly the pattern
\* sources that match the message, and returns the same list for every
\* order in which the same patterns are registered.
C25_SortedDistinctMatches ==
  spc = "Matched" =>
    /\ \A k \in 1 .. Len(matches) - 1 : matches[k] < matches[k + 1]
    /\ Range(matches) = {p \in Range(patterns) : Search(p, msg)}
    /\ \A q \in Orders(patterns) : Matches(q, msg) = matches

\* a source registered twice and out of order, and a message both match
C25_Witness ==
  /\ spc = "Matched"
  /\ patterns = <<2, 1, 2>> /\ msg = {1, 2}
  /\ matches = <<1, 2>>

\* the string str with every character from replaced by to
Swap(str, from, to) ==
  [k \in DOMAIN str |-> IF str[k] = from THEN to ELSE str[k]]

\* a relative path string does not begin with a separator
Relative(str) == str # <<>> /\ str[1] \notin {"/", "\\"}

\* C27: for every relative snapshot path, the string written with back-slash
\* separators and the same string written with forward-slash separators
\* resolve to the same path under the same dataset root.
C27_SeparatorsAgree ==
  (spc = "Normalized" /\ Relative(raw_rel)) =>
    /\ "/" \notin Range(raw_rel) =>
         UnderRoot(rel_path)
           = UnderRoot(NormalizeRelpath(Swap(raw_rel, "\\", "/")))
    /\ "\\" \notin Range(raw_rel) =>
         UnderRoot(rel_path)
           = UnderRoot(NormalizeRelpath(Swap(raw_rel, "/", "\\")))

\* a two-part path written with a back-slash came out as two parts
C27_Witness ==
  /\ spc = "Normalized"
  /\ raw_rel = <<"a", "\\", "b">>
  /\ rel_path = << <<"a">>, <<"b">> >>
  /\ UnderRoot(rel_path) = << <<"/">>, <<"d">>, <<"a">>, <<"b">> >>

\* what applying a patch gives when the patch does not fit the text
Rejected == <<"rejected">>

\* Applying one hunk to the lines ls of a text, as the unified format is
\* read: the body is cut into lines at its terminators; the first character
\* of a line is its tag and the rest is a line of text; the " " and "-"
\* lines must be the a_len lines of ls from a_start on, the " " and "+"
\* lines, b_len of them, take their place. A last line without terminator
\* is taken as it stands.
ApplyHunk(h, ls) ==
  LET pls == SplitLines(h.body)
      olds == SelectSeq(pls, LAMBDA l : Head(l) # "+")
      news == SelectSeq(pls, LAMBDA l : Head(l) # "-")
      from == IF h.a_len = 0 THEN h.a_start + 1 ELSE h.a_start
      fits ==
        /\ \A k \in DOMAIN pls : Head(pls[k]) \in {" ", "-", "+"}
        /\ Len(olds) = h.a_len /\ Len(news) = h.b_len
        /\ from >= 1 /\ from + h.a_len - 1 <= Len(ls)
        /\ \A k \in DOMAIN olds : Tail(olds[k]) = ls[from + k - 1]
  IN IF ~fits THEN Rejected
     ELSE Join(SubSeq(ls, 1, from - 1))
            \o Join([k \in DOMAIN news |-> Tail(news[k])])
            \o Join(SubSeq(ls, from + h.a_len, Len(ls)))

\* the text a diff gives when applied as a patch to text old
ApplyPatch(d, old) ==
  IF d = <<>> THEN old ELSE ApplyHunk(d[1], SplitLines(old))

\* C28: for any two texts old and new, the diff of old and new applied as a
\* patch to old gives new, character for character.
C28_DiffRoundTrip ==
  spc = "Diffed" => ApplyPatch(udiff, old_text) = new_text

\* the entries of scan_hits recorded for workflow w, in order
EntriesOf(w) == SelectSeq(scan_hits, LAMBDA h : h.repo = w)

\* an index document json.loads accepts whose commit records are complete
WellFormed(doc) ==
  doc.parses /\ \A k \in DOMAIN doc.commits :
                  doc.commits[k].message # NullMessage

\* the well-formed index documents the walk has scanned
Scanned == {w \in 1 .. Len(index) : w < wf /\ WellFormed(index[w])}

\* the index in its history of the commit a hit was emitted for
IndexOf(h) ==
  CHOOSE k \in DOMAIN index[h.repo].commits :
    index[h.repo].commits[k].sha = h.commit_sha

\* a diff artifact exists at the path written for workflow w and sha s
DiffWritten(w, s) == \E d \in diffs : d.path = DiffRelpath(w, s)

\* C21: every hit emitted for the commit at index i of a history names as
\* prev_sha the sha of the commit at index i + 1 when there is one, has a
\* null prev_sha exactly when i is the last (oldest) index, and a hit at
\* the oldest index has no diff: no diff_relpath and no diff artifact.
C21_PrevShaIsPredecessor ==
  \A k \in DOMAIN scan_hits :
    ~IsError(scan_hits[k]) =>
      LET h == scan_hits[k]
          cs == index[h.repo].commits
          idx == IndexOf(h)
      IN /\ idx < Len(cs) => h.prev_sha = cs[idx + 1].sha
         /\ h.prev_sha = None <=> idx = Len(cs)
         /\ idx = Len(cs) =>
              (h.diff_relpath = None /\ ~DiffWritten(h.repo, h.commit_sha))

\* a two-commit history, both snapshots on disk, both commits hits: the
\* newer names the older and has a diff, the older has neither
C21_Witness ==
  /\ spc = "Done" /\ Len(index) = 1 /\ Len(scan_hits) = 2
  /\ scan_hits[1].commit_sha = 2 /\ scan_hits[1].prev_sha = 1
  /\ scan_hits[1].diff_relpath # None
  /\ scan_hits[2].commit_sha = 1 /\ scan_hits[2].prev_sha = None
  /\ scan_hits[2].diff_relpath = None
  /\ reads[2].curr = SnapPath(1, 1)

\* the text a recorded snapshot path resolves to: the recorded file when
\* it exists, else the file with ".gz" appended when that exists, else none
ResolvedText(p) ==
  IF p \in DOMAIN disk THEN disk[p]
  ELSE IF WithGz(p) \in DOMAIN disk THEN disk[WithGz(p)]
  ELSE <<>>

\* the commit at index idx of history cs and its predecessor both resolve
\* to non-empty text
BothResolve(cs, idx) ==
  /\ ResolvedText(cs[idx].raw_snapshot_relpath) # <<>>
  /\ idx < Len(cs)
  /\ ResolvedText(cs[idx + 1].raw_snapshot_relpath) # <<>>

\* some pattern matches the message m
SomeMatch(m) == \E k \in DOMAIN patterns : Search(patterns[k], m)

\* C22: for every matching commit of a scanned history a hit is emitted,
\* whether or not its snapshots exist on disk; the hit has a diff_relpath,
\* and the diff artifact exists, if and only if the commit's snapshot and
\* its predecessor's both resolve (as recorded, or with .gz appended when
\* the recorded file is absent) to non-empty text.
C22_DiffIffBothResolve ==
  \A w \in Scanned :
    \A idx \in DOMAIN index[w].commits :
      LET cs == index[w].commits
      IN SomeMatch(cs[idx].message) =>
           /\ \E k \in DOMAIN scan_hits :
                /\ scan_hits[k].repo = w
                /\ scan_hits[k].commit_sha = cs[idx].sha
                /\ scan_hits[k].diff_relpath # None <=> BothResolve(cs, idx)
           /\ DiffWritten(w, cs[idx].sha) <=> BothResolve(cs, idx)

\* the newer commit's snapshot is found through the .gz variant and the
\* older one as recorded: a diff is written; the older commit, a hit too,
\* has none
C22_Witness ==
  /\ spc = "Csv" /\ Len(index) = 1 /\ Len(scan_hits) = 2
  /\ DOMAIN disk = {WithGz(SnapPath(1, 2)), SnapPath(1, 1)}
  /\ scan_hits[1].diff_relpath = DiffRelpath(1, 2)
  /\ diffs = {[path |-> DiffRelpath(1, 2),
               text |-> UnifiedDiffText(SnapText(1), SnapText(2))]}
  /\ scan_hits[2].diff_relpath = None

\* the shas of the commits of history cs, from index k on, whose message
\* matches some pattern
RECURSIVE MatchingShas(_, _)
MatchingShas(cs, k) ==
  IF k > Len(cs) THEN <<>>
  ELSE (IF SomeMatch(cs[k].message) THEN <<cs[k].sha>> ELSE <<>>)
         \o MatchingShas(cs, k + 1)

\* C23: for every scanned workflow history the hits emitted are, in
\* history order, exactly the commits whose message matches at least one
\* pattern, one hit each and none for any other commit, and every hit has
\* a non-empty matched_keywords.
C23_OneHitPerMatchingCommit ==
  \A w \in Scanned :
    LET es == EntriesOf(w)
    IN /\ [k \in DOMAIN es |-> es[k].commit_sha]
            = MatchingShas(index[w].commits, 1)
       /\ \A k \in DOMAIN es : es[k].matched_keywords # <<>>

\* a history whose newer commit matches nothing and whose older commit
\* matches every pattern gives one hit, with the sorted keywords
C23_Witness ==
  /\ spc = "Csv" /\ Len(index) = 1 /\ Len(index[1].commits) = 2
  /\ index[1].commits[1].message = {}
  /\ index[1].commits[2].message = PatternIds
  /\ Len(scan_hits) = 1 /\ scan_hits[1].commit_sha = 1
  /\ scan_hits[1].matched_keywords = [k \in 1 .. MaxPatterns |-> k]

\* C24: a workflow whose index document is malformed contributes exactly
\* one entry, an error entry with null workflow_path and commit_sha and an
\* error text; the walk goes on, the hits of the other workflows are kept,
\* and the failure never ends the scanner before its outputs are written.
C24_MalformedIndexContained ==
  /\ \A w \in 1 .. Len(index) :
       (w < wf /\ ~WellFormed(index[w])) =>
         /\ Len(EntriesOf(w)) = 1
         /\ IsError(EntriesOf(w)[1])
         /\ EntriesOf(w)[1].workflow_path = None
         /\ EntriesOf(w)[1].commit_sha = None
  /\ \A w \in Scanned :
       [k \in DOMAIN EntriesOf(w) |-> EntriesOf(w)[k].commit_sha]
         = MatchingShas(index[w].commits, 1)
  /\ spc # "Crashed"

\* C26: when the scanner has written its hit list in both forms, loading
\* hits.csv gives the same list of CommitHits as loading hits.jsonl: same
\* matched_keywords lists, same null prev_sha and diff_relpath.
C26_CsvLoadsLikeJsonl ==
  (spc \in {"LoadedCsv", "CsvRaised"} /\ readme # Unwritten) =>
    /\ spc = "LoadedCsv"
    /\ ~JsonlRaises(hits_jsonl)
    /\ all_commits = hits_jsonl

\* compare_before_after: after_file and before_file of a loaded hit, under
\* the data root the scanner used
AfterFile(h) == h.snapshot_relpath

BeforeFile(h) ==
  [h.snapshot_relpath EXCEPT
     !.sha = IF @ = h.commit_sha THEN h.prev_sha ELSE @]

\* C29: for every hit whose snapshot the scanner resolved and read, as
\* recorded or through the .gz variant, the comparator's after-file path is
\* that same existing file, and its before-file path is the file the
\* scanner read as the predecessor snapshot.
C29_ComparatorReadsScannedFiles ==
  \A k \in DOMAIN scan_hits :
    (~IsError(scan_hits[k]) /\ reads[k].curr # NoPath) =>
      /\ AfterFile(scan_hits[k]) = reads[k].curr
      /\ Exists(AfterFile(scan_hits[k]), disk)
      /\ reads[k].prev # NoPath =>
           BeforeFile(scan_hits[k]) = reads[k].prev

\* C30: loading the hit stream the scanner wrote never aborts, error
\* entries included, and gives the orchestrator the non-error hits.
C30_LoaderAcceptsStream ==
  spc \in {"LoadedJsonl", "JsonlRaised"} =>
    /\ spc = "LoadedJsonl"
    /\ all_commits = SelectSeq(hits_jsonl, LAMBDA h : ~IsError(h))

\* C31: whenever the loop is about to take its next hit and the number of
\* hits handled in this run, logged or raised, is a positive multiple of the
\* batch size, progress.json holds the progress of main.
C31_PersistEveryBatch ==
  (pc = "Loop" /\ i > 0 /\ i % batch_size = 0) => progressFile = progress

\* C32: once an analyze call of the persistent worker that got to docker
\* exec has returned, with a parsed result, a timeout or an error, no per-call
\* directory is left in the shared mount.
C32_CallDirRemoved ==
  lastCall.outcome \in {"returned", "timeout", "error"} => dirs = {}

\* the commit sha of the last entry of the result log
LastSha(l) == IF l = <<>> THEN None ELSE l[Len(l)].commit_sha

\* C33: from the progress load until the first hit is taken, the
\* last_commit_sha main holds is the commit sha of the last log entry (None
\* for an empty log), and so is the one in progress.json right after the final
\* save and after the save of a KeyboardInterrupt handler.
C33_LastShaIsLogTail ==
  /\ (pc \in {"Select", "InitAnalyzer", "StartContainer"}
        \/ (pc = "Loop" /\ i = 0))
       => progress.last_commit_sha = LastSha(log)
  /\ pc \in {"Finally", "IntStop"}
       => progressFile.last_commit_sha = LastSha(log)

\* C34: unless progress.json was edited by hand and not loaded since, the
\* processed_count it holds is at most the number of entries of the result
\* log.
C34_CounterWithinLog ==
  (~tampered /\ progressFile # NoFile)
    => progressFile.processed_count <= Len(log)

\* a checkpoint on disk that is behind the log: the entry of the next hit
\* has just been appended
C34_Witness ==
  /\ ~tampered /\ progressFile # NoFile /\ pc = "Update"
  /\ progressFile.processed_count > 0
  /\ progressFile.processed_count < Len(log)

\* C35: at most one of the worker containers the run has created is running.
C35_OneWorkerAlive == Cardinality(created \cap alive) <= 1

\* C36: once the run has ended, no shared mount directory it created is left
\* on disk.
C36_MountsRemoved == pc \in Terminal => mounts = {}

\* the state of the spec's run state machine the process is in: Loading
\* is main up to the selection of the hits to process, Running everything
\* from the creation of the analyzer to the end of the finally clause
Phase(p) ==
  CASE p = "Idle" -> "Idle"
    [] p \in {"Loading", "Select"} -> "Loading"
    [] p \in Terminal -> p
    [] OTHER -> "Running"

\* C37 as stated: a run ends only from Running, having passed through
\* Loading and Running before it reaches Completed, Interrupted or Failed.
C37_EndsFromRunning ==
  [][(pc' \in Terminal /\ pc \notin Terminal) => Phase(pc) = "Running"]_vars

\* C37: a run goes from Idle to Loading, from Loading to Running or, with no
\* hit to process or when interrupted, straight to its end, and from Running
\* to its end only; Running is entered with hits to process; and every run
\* that has begun loading reaches Completed, Interrupted or Failed.
C37_RunTerminates ==
  /\ [][\/ Phase(pc') = Phase(pc)
        \/ Phase(pc) = "Idle" /\ Phase(pc') = "Loading"
        \/ Phase(pc) = "Loading" /\ Phase(pc') = "Running" /\ todo' # <<>>
        \/ Phase(pc) = "Loading" /\ pc' = "Completed" /\ todo' = <<>>
        \/ Phase(pc) = "Loading" /\ pc' = "Interrupted"
        \/ Phase(pc) = "Running" /\ pc' \in Terminal]_vars
  /\ (pc = "Loading") ~> (pc \in Terminal)

\* a run that logged every hit, lost its worker on the way and completed
C37_Witness ==
  /\ pc = "Completed" /\ Len(log) = MaxHits /\ faults > 0 /\ starts > 1

\* the string keys of the findings of an analysis result
Keys(r) == {Str(r.findings[k]) : k \in 1 .. Len(r.findings)}

\* C38: the fixed issues of a ComparisonResult are empty unless
\* weaknesses_reduced is true, and each of them is the key of a finding of
\* the before analysis and of no finding of the after analysis.
C38_FixedAreGone ==
  /\ result.fixed_issues # {} => result.weaknesses_reduced
  /\ \A key \in result.fixed_issues :
       /\ key \in Keys(result.before_result)
       /\ key \notin Keys(result.after_result)

\* a reduction in which one finding is gone and another is still there
C38_Witness ==
  /\ pc = "Compared" /\ result.weaknesses_reduced
  /\ result.fixed_issues # {}
  /\ Keys(result.before_result) \cap Keys(result.after_result) # {}

\* the variants of analyze the claim compares: direct (the analyzer run on
\* the host), ephemeral sandbox (a container per call) and persistent worker
Variants == {"native", "docker", "optimized"}

\* C39: for the same snapshot file and the same analyzer behaviour, and a
\* worker that is up, what one variant returned has the success, the
\* findings count and the findings list every other variant returns.
C39_VariantsAgree ==
  (pc = "Analyzed" /\ proc.backend \in Variants /\ proc.worker)
    => \A b \in Variants :
         LET other == RunPoutineOnWorkflow([proc EXCEPT !.backend = b])
         IN /\ after_result.success = other.success
            /\ after_result.findings_count = other.findings_count
            /\ after_result.findings = other.findings

\* the hits emitted with the diff path p
HitsWithDiff(p) ==
  {k \in DOMAIN scan_hits :
     ~IsError(scan_hits[k]) /\ scan_hits[k].diff_relpath = p}

\* the diff between the snapshots the scanner resolves for the predecessor
\* of the commit of hit h and for the commit itself
DiffOfHit(h, cs, idx) ==
  UnifiedDiffText(
    IF idx < Len(cs)
    THEN ReadText(Resolve(cs[idx + 1].raw_snapshot_relpath, disk), disk)
    ELSE <<>>,
    ReadText(Resolve(h.snapshot_relpath, disk), disk))

\* C40: after a scan, every diff file under the diffs root is referenced
\* by the diff_relpath of exactly one emitted hit and holds the diff
\* between that hit's predecessor snapshot and its current snapshot: no
\* two hits share a diff path and no diff is left on disk without a hit,
\* also when the scan of a workflow failed partway.
C40_DiffsBelongToHits ==
  wf > Len(index) =>
    \A d \in diffs :
      /\ Cardinality(HitsWithDiff(d.path)) = 1
      /\ \A k \in HitsWithDiff(d.path) :
           d.text = DiffOfHit(scan_hits[k], index[scan_hits[k].repo].commits,
                              IndexOf(scan_hits[k]))

====
